---- MODULE Spec2Model ----
(***************************************************************************)
(* credctl: a local credential agent.  The model covers the provider       *)
(* abstraction with its OAuth2 token cache and flows, and the daemon's     *)
(* dual-socket one-shot IPC protocol with its in-memory/on-disk state.     *)
(***************************************************************************)
EXTENDS Integers, Sequences, FiniteSets, TLC

(***************************************************************************)
(* Bounds of the model                                                     *)
(***************************************************************************)
MaxReqs == 2
MaxTime == 15
TickStep == 15

(***************************************************************************)
(* Program constants                                                       *)
(***************************************************************************)
DefaultTokenExpiry == 31536000
ValidityBuffer == 30
DefaultRedirectPort == 8085

FlowDevice == "device"
FlowAuthCode == "auth-code"
FlowClientCredentials == "client-credentials"

MetadataCommand == "command"
MetadataLoginCommand == "login_command"
MetadataIssuer == "issuer"
MetadataClientID == "client_id"
MetadataClientSecret == "client_secret"
MetadataTokenEndpoint == "token_endpoint"
MetadataAuthEndpoint == "auth_endpoint"
MetadataDeviceEndpoint == "device_endpoint"
MetadataRedirectPort == "redirect_port"
MetadataRedirectURI == "redirect_uri"

ErrAuthenticationRequired == "authentication required"
ErrDeviceFlowRequiresLogin == "device flow requires explicit authentication"

ErrorTypeAuthRequired == "auth_required"
ErrorTypeGeneric == "generic"

(***************************************************************************)
(* JSON values of a metadata map: every value carries its dynamic type.    *)
(***************************************************************************)
Str(s) == [t |-> "str", v |-> s]
Num(n) == [t |-> "num", n |-> n]
Bool(b) == [t |-> "bool", b |-> b]
EmptyMap == [k \in {} |-> Str("")]

GetStringOrDefault(config, key, defaultValue) ==
    IF key \in DOMAIN config /\ config[key].t = "str"
    THEN config[key].v ELSE defaultValue

GetBoolOrDefault(config, key, defaultValue) ==
    IF key \in DOMAIN config /\ config[key].t = "bool"
    THEN config[key].b ELSE defaultValue

GetIntOrDefault(config, key, defaultValue) ==
    IF key \in DOMAIN config /\ config[key].t = "num"
    THEN config[key].n ELSE defaultValue

(***************************************************************************)
(* Token cache                                                             *)
(***************************************************************************)
NoTokens == [nil |-> TRUE]

TokenCache(access, refresh, id, expiresAt) ==
    [nil |-> FALSE, AccessToken |-> access, RefreshToken |-> refresh,
     IDToken |-> id, ExpiresAt |-> expiresAt]

NormalizeExpiresIn(expiresIn) ==
    IF expiresIn <= 0 THEN DefaultTokenExpiry ELSE expiresIn

\* IsTokenValid that accepts a token expiring exactly when the buffer ends
IsTokenValidInclusive(tokens, t) ==
    IF tokens.nil \/ tokens.AccessToken = ""
    THEN FALSE
    ELSE t + ValidityBuffer <= tokens.ExpiresAt

\* IsTokenValid with a buffer of one minute
IsTokenValidWideBuffer(tokens, t) ==
    IF tokens.nil \/ tokens.AccessToken = ""
    THEN FALSE
    ELSE t + 2 * ValidityBuffer < tokens.ExpiresAt

IsTokenValid(tokens, t) ==
    IF tokens.nil \/ tokens.AccessToken = ""
    THEN FALSE
    ELSE t + ValidityBuffer < tokens.ExpiresAt

(***************************************************************************)
(* Provider instances.  One record shape serves every variant; the fields  *)
(* a variant does not have keep their zero value.                          *)
(***************************************************************************)
List(l) == [t |-> "list", l |-> l]

GetStringSliceOrDefault(config, key, defaultValue) ==
    IF key \in DOMAIN config /\ config[key].t = "list"
    THEN config[key].l ELSE defaultValue

GetScopes(config) == GetStringSliceOrDefault(config, "scopes", <<>>)

GetScopesOrDefault(config) ==
    IF Len(GetScopes(config)) = 0 THEN <<"openid">> ELSE GetScopes(config)

ZeroProvider(type) ==
    [type |-> type, command |-> "", loginCommand |-> "", inputFormat |-> "",
     issuer |-> "", clientID |-> "", clientSecret |-> "", scopes |-> <<>>,
     tokenEndpoint |-> "", authEndpoint |-> "", deviceEndpoint |-> "",
     redirectURI |-> "", redirectPort |-> 0, flow |-> "", usePKCE |-> FALSE,
     template |-> "", authURL |-> "", tokenField |-> "", tokens |-> NoTokens]

RegisteredTypes == {"command", "oauth2", "oauth2-client", "oauth2-device", "oauth2-proxy"}

\* provider.New: a fresh zero instance of a registered type
New(providerType) ==
    IF providerType \in RegisteredTypes
    THEN [err |-> FALSE, prov |-> ZeroProvider(providerType)]
    ELSE [err |-> TRUE, prov |-> ZeroProvider("")]

\* Discover: the discovery document, or a failure (non-200, bad JSON, no route)
DiscoveryFailed == [ok |-> FALSE]
DiscoveryDoc(tok, auth, dev) ==
    [ok |-> TRUE, TokenEndpoint |-> tok, AuthorizationEndpoint |-> auth,
     DeviceEndpoint |-> dev]

CommandInit(p, config) ==
    IF MetadataCommand \notin DOMAIN config \/ config[MetadataCommand].t # "str"
    THEN [res |-> "panic", prov |-> p, net |-> <<>>]
    ELSE [res |-> "ok",
          prov |-> [p EXCEPT !.command = config[MetadataCommand].v,
                      !.loginCommand = GetStringOrDefault(config, MetadataLoginCommand, ""),
                      !.inputFormat = GetStringOrDefault(config, "input_format", "raw")],
          net |-> <<>>]

ClientProviderInit(p, config) ==
    [res |-> "ok",
     prov |-> [p EXCEPT !.clientID = GetStringOrDefault(config, MetadataClientID, ""),
                 !.clientSecret = GetStringOrDefault(config, MetadataClientSecret, ""),
                 !.scopes = GetScopes(config),
                 !.tokenEndpoint = GetStringOrDefault(config, MetadataTokenEndpoint, "")],
     net |-> <<>>]

DeviceProviderInit(p, config) ==
    [res |-> "ok",
     prov |-> [p EXCEPT !.clientID = GetStringOrDefault(config, MetadataClientID, ""),
                 !.clientSecret = GetStringOrDefault(config, MetadataClientSecret, ""),
                 !.scopes = GetScopes(config),
                 !.tokenEndpoint = GetStringOrDefault(config, MetadataTokenEndpoint, ""),
                 !.deviceEndpoint = GetStringOrDefault(config, MetadataDeviceEndpoint, "")],
     net |-> <<>>]

\* oauth2proxy.Provider.Init
ProxyInit(p, config) ==
    IF GetStringOrDefault(config, "auth_url", "") = ""
    THEN [res |-> "err", prov |-> p, net |-> <<>>]
    ELSE IF GetStringOrDefault(config, "token_field", "token")
              \notin {"token", "access_token", "both"}
    THEN [res |-> "err", prov |-> p, net |-> <<>>]
    ELSE [res |-> "ok",
          prov |-> [p EXCEPT !.authURL = GetStringOrDefault(config, "auth_url", ""),
                      !.tokenField = GetStringOrDefault(config, "token_field", "token"),
                      !.redirectPort = GetIntOrDefault(config, MetadataRedirectPort,
                                                       DefaultRedirectPort)],
          net |-> <<>>]

\* oauth2.Provider.Init; doc is what the discovery endpoint answers when asked
OAuth2Init(p, config, doc) ==
    LET failed(q, net) == [res |-> "err", prov |-> q, net |-> net]
        \* the endpoints the selected flow requires
        validate(p2, net) ==
            IF p2.tokenEndpoint = "" THEN failed(p2, net)
            ELSE IF p2.flow = FlowDevice /\ p2.deviceEndpoint = "" THEN failed(p2, net)
            ELSE IF p2.flow = FlowAuthCode /\ p2.authEndpoint = "" THEN failed(p2, net)
            ELSE IF p2.flow = FlowClientCredentials /\ p2.clientSecret = ""
            THEN failed(p2, net)
            ELSE [res |-> "ok", prov |-> p2, net |-> net]
        \* discovery fills the endpoints that were not given
        discover(p1) ==
            IF p1.issuer = "" THEN validate(p1, <<>>)
            ELSE IF ~doc.ok THEN failed(p1, <<"discovery">>)
            ELSE validate(
                   [p1 EXCEPT
                      !.tokenEndpoint = IF p1.tokenEndpoint = "" THEN doc.TokenEndpoint
                                        ELSE p1.tokenEndpoint,
                      !.authEndpoint = IF p1.flow = FlowAuthCode /\ p1.authEndpoint = ""
                                       THEN doc.AuthorizationEndpoint ELSE p1.authEndpoint,
                      !.deviceEndpoint = IF p1.flow = FlowDevice /\ p1.deviceEndpoint = ""
                                            /\ doc.DeviceEndpoint # ""
                                         THEN doc.DeviceEndpoint ELSE p1.deviceEndpoint],
                   <<"discovery">>)
        checkFlow(p0) ==
            IF p0.flow = "" THEN failed(p0, <<>>)
            ELSE IF p0.flow \notin {FlowDevice, FlowAuthCode, FlowClientCredentials}
            THEN failed(p0, <<>>)
            ELSE discover([p0 EXCEPT !.scopes = IF p0.issuer # "" THEN GetScopesOrDefault(config)
                                                ELSE GetScopes(config)])
    IN  checkFlow([p EXCEPT
                     !.issuer = GetStringOrDefault(config, MetadataIssuer, ""),
                     !.clientID = GetStringOrDefault(config, MetadataClientID, ""),
                     !.clientSecret = GetStringOrDefault(config, MetadataClientSecret, ""),
                     !.tokenEndpoint = GetStringOrDefault(config, MetadataTokenEndpoint, ""),
                     !.authEndpoint = GetStringOrDefault(config, MetadataAuthEndpoint, ""),
                     !.deviceEndpoint = GetStringOrDefault(config, MetadataDeviceEndpoint, ""),
                     !.redirectPort = GetIntOrDefault(config, MetadataRedirectPort,
                                                      DefaultRedirectPort),
                     !.redirectURI = GetStringOrDefault(config, MetadataRedirectURI, ""),
                     !.usePKCE = GetBoolOrDefault(config, "use_pkce", TRUE),
                     !.flow = GetStringOrDefault(config, "flow", ""),
                     !.template = GetStringOrDefault(config, "template", "")])

\* Provider.Init that goes on with the configured endpoints when discovery fails
ProviderInitLazyDiscovery(p, config, doc) ==
    CASE p.type = "command" -> CommandInit(p, config)
      [] p.type = "oauth2" ->
           OAuth2Init(p, config, IF doc.ok THEN doc ELSE DiscoveryDoc("", "", ""))
      [] p.type = "oauth2-client" -> ClientProviderInit(p, config)
      [] p.type = "oauth2-proxy" -> ProxyInit(p, config)
      [] OTHER -> DeviceProviderInit(p, config)

\* Provider.Init, dispatched on the variant
ProviderInit(p, config, doc) ==
    CASE p.type = "command" -> CommandInit(p, config)
      [] p.type = "oauth2" -> OAuth2Init(p, config, doc)
      [] p.type = "oauth2-client" -> ClientProviderInit(p, config)
      [] p.type = "oauth2-proxy" -> ProxyInit(p, config)
      [] OTHER -> DeviceProviderInit(p, config)

(***************************************************************************)
(* Metadata(): the configuration map that is persisted and that the get    *)
(* handler puts in its response.                                           *)
(***************************************************************************)
Put(m, cond, key, val) == IF cond THEN (key :> val) @@ m ELSE m

CommandMetadata(p) ==
    Put(Put((MetadataCommand :> Str(p.command)),
            p.loginCommand # "", MetadataLoginCommand, Str(p.loginCommand)),
        p.inputFormat # "" /\ p.inputFormat # "raw", "input_format", Str(p.inputFormat))

ClientProviderMetadata(p) ==
    Put((MetadataClientID :> Str(p.clientID))
          @@ (MetadataClientSecret :> Str(p.clientSecret))
          @@ (MetadataTokenEndpoint :> Str(p.tokenEndpoint)),
        Len(p.scopes) > 0, "scopes", List(p.scopes))

DeviceProviderMetadata(p) ==
    Put(Put((MetadataClientID :> Str(p.clientID))
              @@ (MetadataTokenEndpoint :> Str(p.tokenEndpoint))
              @@ (MetadataDeviceEndpoint :> Str(p.deviceEndpoint)),
            p.clientSecret # "", MetadataClientSecret, Str(p.clientSecret)),
        Len(p.scopes) > 0, "scopes", List(p.scopes))

OAuth2Metadata(p) ==
    LET m0 == (MetadataClientID :> Str(p.clientID))
        m1 == Put(m0, p.issuer # "", MetadataIssuer, Str(p.issuer))
        m2 == Put(m1, p.clientSecret # "", MetadataClientSecret, Str(p.clientSecret))
        m3 == Put(m2, Len(p.scopes) > 0, "scopes", List(p.scopes))
        m4 == Put(m3, p.tokenEndpoint # "", MetadataTokenEndpoint, Str(p.tokenEndpoint))
        m5 == Put(m4, p.authEndpoint # "", MetadataAuthEndpoint, Str(p.authEndpoint))
        m6 == Put(m5, p.deviceEndpoint # "", MetadataDeviceEndpoint, Str(p.deviceEndpoint))
        m7 == Put(m6, p.redirectURI # "", MetadataRedirectURI, Str(p.redirectURI))
        m8 == Put(m7, p.redirectPort # 0, MetadataRedirectPort, Num(p.redirectPort))
        m9 == Put(m8, p.usePKCE, "use_pkce", Bool(TRUE))
        m10 == Put(m9, p.flow # "", "flow", Str(p.flow))
    IN  Put(m10, p.template # "", "template", Str(p.template))

ProxyMetadata(p) ==
    Put(("auth_url" :> Str(p.authURL)) @@ ("token_field" :> Str(p.tokenField)),
        p.redirectPort # 0, MetadataRedirectPort, Num(p.redirectPort))

Metadata(p) ==
    CASE p.type = "command" -> CommandMetadata(p)
      [] p.type = "oauth2" -> OAuth2Metadata(p)
      [] p.type = "oauth2-client" -> ClientProviderMetadata(p)
      [] p.type = "oauth2-proxy" -> ProxyMetadata(p)
      [] OTHER -> DeviceProviderMetadata(p)

(***************************************************************************)
(* Token endpoint: what one POST returns.  A transport failure, or a body  *)
(* that parses to a TokenResponse (an absent field is the zero value).     *)
(***************************************************************************)
NetFail == [net |-> "fail"]
TokenResponse(error, access, refresh, id, expiresIn) ==
    [net |-> "ok", Error |-> error, AccessToken |-> access,
     RefreshToken |-> refresh, IDToken |-> id, ExpiresIn |-> expiresIn]

NoCache == [err |-> TRUE, cache |-> NoTokens]

RefreshAccessToken(refreshToken, r, t) ==
    IF r.net = "fail" \/ r.Error # "" THEN NoCache
    ELSE [err |-> FALSE,
          cache |-> TokenCache(r.AccessToken,
                               IF r.RefreshToken = "" THEN refreshToken ELSE r.RefreshToken,
                               "", t + NormalizeExpiresIn(r.ExpiresIn))]

ExchangeCodeForTokens(r, t) ==
    IF r.net = "fail" \/ r.Error # "" THEN NoCache
    ELSE [err |-> FALSE,
          cache |-> TokenCache(r.AccessToken, r.RefreshToken, "",
                               t + NormalizeExpiresIn(r.ExpiresIn))]

GetClientCredentialsToken(r, t) ==
    IF r.net = "fail" \/ r.Error # "" THEN NoCache
    ELSE [err |-> FALSE,
          cache |-> TokenCache(r.AccessToken, "", "",
                               t + NormalizeExpiresIn(r.ExpiresIn))]

(***************************************************************************)
(* Authorization-code flow.  The generated state is one unguessable value; *)
(* a callback carries whatever state, error and code its sender chose.     *)
(***************************************************************************)
GeneratedState == "st1"
GeneratedVerifier == "v1"

LocalRedirectURI == "http://localhost:9000/cb"
ExternalRedirectURI == "https://login.example/cb"

\* url.Parse(redirectURI).Hostname() on the redirect URIs of the model
Hostname(uri) ==
    CASE uri = LocalRedirectURI -> "localhost"
      [] uri = ExternalRedirectURI -> "login.example"
      [] OTHER -> ""

\* how the wait of StartCallbackServer ends
WaitCallback(state, error, code) ==
    [kind |-> "callback", state |-> state, error |-> error, code |-> code]
WaitEnds(kind) == [kind |-> kind, state |-> "", error |-> "", code |-> ""]

FlowFailed(effects) ==
    [err |-> TRUE, code |-> "", codeVerifier |-> "", redirectURI |-> "",
     effects |-> effects]

\* AuthenticateAuthCodeFlow without the comparison of the callback's state
AuthenticateAuthCodeFlowNoStateCheck(params, e) ==
    LET codeVerifier == IF params.UsePKCE THEN GeneratedVerifier ELSE ""
        redirectURI == IF params.RedirectURI = "" THEN "http://localhost/callback"
                       ELSE params.RedirectURI
        isLocalhost == IF params.RedirectURI = "" THEN TRUE
                       ELSE Hostname(params.RedirectURI) \in {"localhost", "127.0.0.1"}
    IN  IF ~e.browser THEN FlowFailed(<<"browser">>)
        ELSE IF isLocalhost
        THEN IF e.wait.kind = "listenfail" THEN FlowFailed(<<"browser">>)
             ELSE IF e.wait.kind # "callback" THEN FlowFailed(<<"browser", "listen">>)
             ELSE IF e.wait.error # ""
             THEN FlowFailed(<<"browser", "listen", "callback">>)
             ELSE IF e.wait.code = ""
             THEN FlowFailed(<<"browser", "listen", "callback">>)
             ELSE [err |-> FALSE, code |-> e.wait.code, codeVerifier |-> codeVerifier,
                   redirectURI |-> redirectURI,
                   effects |-> <<"browser", "listen", "callback">>]
        ELSE IF e.stdin = "EOF" \/ e.stdin = "" THEN FlowFailed(<<"browser", "stdin">>)
             ELSE [err |-> FALSE, code |-> e.stdin, codeVerifier |-> codeVerifier,
                   redirectURI |-> redirectURI, effects |-> <<"browser", "stdin">>]

\* e.browser: OpenBrowser succeeded; e.wait: how the callback wait ends;
\* e.stdin: the line the operator types ("EOF" when stdin is closed)
AuthenticateAuthCodeFlow(params, e) ==
    LET codeVerifier == IF params.UsePKCE THEN GeneratedVerifier ELSE ""
        redirectURI == IF params.RedirectURI = "" THEN "http://localhost/callback"
                       ELSE params.RedirectURI
        isLocalhost == IF params.RedirectURI = "" THEN TRUE
                       ELSE Hostname(params.RedirectURI) \in {"localhost", "127.0.0.1"}
    IN  IF ~e.browser THEN FlowFailed(<<"browser">>)
        ELSE IF isLocalhost
        THEN IF e.wait.kind = "listenfail" THEN FlowFailed(<<"browser">>)
             ELSE IF e.wait.kind # "callback" THEN FlowFailed(<<"browser", "listen">>)
             ELSE IF e.wait.state # GeneratedState
             THEN FlowFailed(<<"browser", "listen", "callback">>)
             ELSE IF e.wait.error # ""
             THEN FlowFailed(<<"browser", "listen", "callback">>)
             ELSE IF e.wait.code = ""
             THEN FlowFailed(<<"browser", "listen", "callback">>)
             ELSE [err |-> FALSE, code |-> e.wait.code, codeVerifier |-> codeVerifier,
                   redirectURI |-> redirectURI,
                   effects |-> <<"browser", "listen", "callback">>]
        ELSE IF e.stdin = "EOF" \/ e.stdin = "" THEN FlowFailed(<<"browser", "stdin">>)
             ELSE [err |-> FALSE, code |-> e.stdin, codeVerifier |-> codeVerifier,
                   redirectURI |-> redirectURI, effects |-> <<"browser", "stdin">>]

\* Provider.doAuthorizationCodeFlow; e.grant is the token endpoint's answer,
\* e.idok whether the ID token verifies
doAuthorizationCodeFlow(p, e, t) ==
    LET a == AuthenticateAuthCodeFlow(
                 [AuthEndpoint |-> p.authEndpoint, ClientID |-> p.clientID,
                  Scopes |-> p.scopes, RedirectURI |-> p.redirectURI,
                  RedirectPort |-> p.redirectPort, UsePKCE |-> p.usePKCE], e)
        x == ExchangeCodeForTokens(e.grant, t)
    IN  IF a.err THEN [err |-> TRUE, prov |-> p, calls |-> a.effects]
        ELSE IF x.err
        THEN [err |-> TRUE, prov |-> p, calls |-> a.effects \o <<"exchange">>]
        ELSE IF p.issuer # "" /\ x.cache.IDToken # "" /\ ~e.idok
        THEN [err |-> TRUE, prov |-> p, calls |-> a.effects \o <<"exchange", "verify">>]
        ELSE [err |-> FALSE, prov |-> [p EXCEPT !.tokens = x.cache],
              calls |-> a.effects \o <<"exchange">>
                         \o (IF p.issuer # "" /\ x.cache.IDToken # ""
                             THEN <<"verify">> ELSE <<>>)]

(***************************************************************************)
(* Device flow, as one request to the device-authorization endpoint and    *)
(* the final answer of the poll loop.                                      *)
(***************************************************************************)
AuthenticateDeviceFlow(e) ==
    IF ~e.devauth THEN [err |-> TRUE, resp |-> NetFail, calls |-> <<"device_authorization">>]
    ELSE IF e.poll.net = "fail" \/ e.poll.Error # ""
    THEN [err |-> TRUE, resp |-> e.poll, calls |-> <<"device_authorization", "device_poll">>]
    ELSE [err |-> FALSE, resp |-> e.poll, calls |-> <<"device_authorization", "device_poll">>]

(***************************************************************************)
(* The poll loop of the device flow, one iteration at a time.  A loop is   *)
(* the local state of pollForDeviceTokenResponse: where it stands, its     *)
(* interval and deadline, and a record of what it did so far.              *)
(***************************************************************************)
DefaultPollInterval == 5
SlowDownIncrement == 5

DeviceAuthResponse(interval, expiresIn) == [Interval |-> interval, ExpiresIn |-> expiresIn]

NilResponse == [net |-> "nil"]
BadJSON == [net |-> "badjson"]

NoPoll ==
    [pc |-> "idle", interval |-> 0, interval0 |-> 0, deadline |-> 0, start |-> 0,
     cancelled |-> FALSE, sent |-> 0, lastSent |-> 0, pendings |-> 0, slowdowns |-> 0,
     nwaits |-> 0, waited |-> 0, lastWait |-> 0, last |-> "", err |-> "",
     resp |-> NilResponse]

\* the function is entered at time t: interval (5 s when the server names
\* none) and deadline
pollEnter(deviceAuth, t) ==
    [NoPoll EXCEPT !.pc = "top",
                   !.interval = IF deviceAuth.Interval = 0 THEN DefaultPollInterval
                                ELSE deviceAuth.Interval,
                   !.interval0 = IF deviceAuth.Interval = 0 THEN DefaultPollInterval
                                 ELSE deviceAuth.Interval,
                   !.deadline = t + deviceAuth.ExpiresIn,
                   !.start = t]

pollReturn(pl, err, resp) == [pl EXCEPT !.pc = "returned", !.err = err, !.resp = resp]

\* the head of the loop without the deadline
pollTopNoDeadline(pl, t) ==
    IF pl.cancelled THEN pollReturn(pl, "context canceled", NilResponse)
    ELSE [pl EXCEPT !.pc = "post"]

\* the head of the loop at time t: the context, then the deadline
pollTop(pl, t) ==
    IF pl.cancelled THEN pollReturn(pl, "context canceled", NilResponse)
    ELSE IF t > pl.deadline
    THEN pollReturn(pl, "device authorization timed out", NilResponse)
    ELSE [pl EXCEPT !.pc = "post"]

pollSleep(pl) == [pl EXCEPT !.pc = "sleep"]

\* the switch that polls again at once after authorization_pending
pollSwitchNoWait(pl, r) ==
    IF r.net = "fail" THEN pollReturn(pl, "failed to poll token endpoint", NilResponse)
    ELSE IF r.net = "badjson"
    THEN pollReturn(pl, "failed to parse token response", NilResponse)
    ELSE CASE r.Error = "" -> pollReturn(pl, "", r)
           [] r.Error = "authorization_pending" ->
                [pl EXCEPT !.pc = "top", !.pendings = pl.pendings + 1]
           [] r.Error = "slow_down" ->
                pollSleep([pl EXCEPT !.interval = pl.interval + SlowDownIncrement,
                                     !.slowdowns = pl.slowdowns + 1])
           [] r.Error = "expired_token" -> pollReturn(pl, "device code expired", NilResponse)
           [] r.Error = "access_denied" -> pollReturn(pl, "access denied by user", NilResponse)
           [] OTHER -> pollReturn(pl, "token error", NilResponse)

\* the switch that keeps polling after access_denied
pollSwitchRetryDenied(pl, r) ==
    IF r.net = "fail" THEN pollReturn(pl, "failed to poll token endpoint", NilResponse)
    ELSE IF r.net = "badjson"
    THEN pollReturn(pl, "failed to parse token response", NilResponse)
    ELSE CASE r.Error = "" -> pollReturn(pl, "", r)
           [] r.Error = "authorization_pending" ->
                pollSleep([pl EXCEPT !.pendings = pl.pendings + 1])
           [] r.Error = "slow_down" ->
                pollSleep([pl EXCEPT !.interval = pl.interval + SlowDownIncrement,
                                     !.slowdowns = pl.slowdowns + 1])
           [] r.Error = "expired_token" -> pollReturn(pl, "device code expired", NilResponse)
           [] r.Error = "access_denied" -> pollSleep(pl)
           [] OTHER -> pollReturn(pl, "token error", NilResponse)

\* the switch whose interval stays as it was after slow_down
pollSwitchFixedInterval(pl, r) ==
    IF r.net = "fail" THEN pollReturn(pl, "failed to poll token endpoint", NilResponse)
    ELSE IF r.net = "badjson"
    THEN pollReturn(pl, "failed to parse token response", NilResponse)
    ELSE CASE r.Error = "" -> pollReturn(pl, "", r)
           [] r.Error = "authorization_pending" ->
                pollSleep([pl EXCEPT !.pendings = pl.pendings + 1])
           [] r.Error = "slow_down" ->
                pollSleep([pl EXCEPT !.slowdowns = pl.slowdowns + 1])
           [] r.Error = "expired_token" -> pollReturn(pl, "device code expired", NilResponse)
           [] r.Error = "access_denied" -> pollReturn(pl, "access denied by user", NilResponse)
           [] OTHER -> pollReturn(pl, "token error", NilResponse)

\* what the loop does with the answer r to its POST
pollSwitch(pl, r) ==
    IF r.net = "fail" THEN pollReturn(pl, "failed to poll token endpoint", NilResponse)
    ELSE IF r.net = "badjson"
    THEN pollReturn(pl, "failed to parse token response", NilResponse)
    ELSE CASE r.Error = "" -> pollReturn(pl, "", r)
           [] r.Error = "authorization_pending" ->
                pollSleep([pl EXCEPT !.pendings = pl.pendings + 1])
           [] r.Error = "slow_down" ->
                pollSleep([pl EXCEPT !.interval = pl.interval + SlowDownIncrement,
                                     !.slowdowns = pl.slowdowns + 1])
           [] r.Error = "expired_token" -> pollReturn(pl, "device code expired", NilResponse)
           [] r.Error = "access_denied" -> pollReturn(pl, "access denied by user", NilResponse)
           [] OTHER -> pollReturn(pl, "token error", NilResponse)

(***************************************************************************)
(* Get(): the result is the provider after the call, the bytes returned,   *)
(* the error ("" for nil) and the outside interactions made, in order.     *)
(***************************************************************************)
GetResult(p, out, err, calls) == [prov |-> p, out |-> out, err |-> err, calls |-> calls]

\* oauth2.Provider.Get (the universal provider)
OAuth2Get(p, e, t) ==
    LET tryRefresh == ~p.tokens.nil /\ p.tokens.RefreshToken # ""
        r == IF tryRefresh THEN RefreshAccessToken(p.tokens.RefreshToken, e.refresh, t)
             ELSE NoCache
        rc == IF tryRefresh THEN <<"refresh">> ELSE <<>>
        cc == GetClientCredentialsToken(e.grant, t)
        ac == doAuthorizationCodeFlow(p, e, t)
    IN  IF IsTokenValid(p.tokens, t)
        THEN GetResult(p, p.tokens.AccessToken, "", <<>>)
        ELSE IF tryRefresh /\ ~r.err
        THEN GetResult([p EXCEPT !.tokens = r.cache], r.cache.AccessToken, "", rc)
        ELSE CASE p.flow = FlowClientCredentials ->
                    IF cc.err
                    THEN GetResult(p, "", "client credentials grant failed",
                                   rc \o <<"client_credentials">>)
                    ELSE GetResult([p EXCEPT !.tokens = cc.cache], cc.cache.AccessToken,
                                   "", rc \o <<"client_credentials">>)
               [] p.flow = FlowAuthCode ->
                    IF ac.err
                    THEN GetResult(p, "", "authorization code flow failed", rc \o ac.calls)
                    ELSE GetResult(ac.prov, ac.prov.tokens.AccessToken, "", rc \o ac.calls)
               [] p.flow = FlowDevice ->
                    GetResult(p, "", ErrDeviceFlowRequiresLogin, rc)
               [] OTHER -> GetResult(p, "", "unsupported flow", rc)

\* oauth2.ClientProvider.Get
ClientProviderGet(p, e, t) ==
    LET cc == GetClientCredentialsToken(e.grant, t)
    IN  IF IsTokenValid(p.tokens, t)
        THEN GetResult(p, p.tokens.AccessToken, "", <<>>)
        ELSE IF cc.err
        THEN GetResult(p, "", "failed to get client credentials token",
                       <<"client_credentials">>)
        ELSE GetResult([p EXCEPT !.tokens = cc.cache], cc.cache.AccessToken, "",
                       <<"client_credentials">>)

\* oauth2.DeviceProvider.Get
DeviceProviderGet(p, e, t) ==
    LET tryRefresh == ~p.tokens.nil /\ p.tokens.RefreshToken # ""
        r == IF tryRefresh THEN RefreshAccessToken(p.tokens.RefreshToken, e.refresh, t)
             ELSE NoCache
        rc == IF tryRefresh THEN <<"refresh">> ELSE <<>>
    IN  IF IsTokenValid(p.tokens, t)
        THEN GetResult(p, p.tokens.AccessToken, "", <<>>)
        ELSE IF tryRefresh /\ ~r.err
        THEN GetResult([p EXCEPT !.tokens = r.cache], r.cache.AccessToken, "", rc)
        ELSE GetResult(p, "", ErrAuthenticationRequired, rc)

\* strings.TrimRight(stdout, "\r\n") on the outputs of the model
TrimRightNewlines(s) ==
    CASE s = "hi\n" -> "hi"
      [] s = "ho\n" -> "ho"
      [] s = "\n" -> ""
      [] OTHER -> s

\* command.CommandProvider.Get; e.cmd is what the shell command does
CommandGet(p, e) ==
    IF e.cmd.exit # 0 THEN GetResult(p, "", "exit status", <<"exec">>)
    ELSE GetResult(p, TrimRightNewlines(e.cmd.stdout), "", <<"exec">>)

ProxyTokenExpiry == 3600

\* json.Marshal of the two tokens, on the tokens of the model
MarshalBoth(token, accessToken) ==
    "{\"access_token\":\"" \o accessToken \o "\",\"token\":\"" \o token \o "\"}"

\* oauth2proxy.Provider.formatToken
formatToken(p, calls) ==
    CASE p.tokens.nil -> GetResult(p, "", "no tokens available", calls)
      [] p.tokenField = "token" ->
           IF p.tokens.IDToken = "" THEN GetResult(p, "", "token not available", calls)
           ELSE GetResult(p, p.tokens.IDToken, "", calls)
      [] p.tokenField = "access_token" ->
           IF p.tokens.AccessToken = ""
           THEN GetResult(p, "", "access_token not available", calls)
           ELSE GetResult(p, p.tokens.AccessToken, "", calls)
      [] p.tokenField = "both" ->
           GetResult(p, MarshalBoth(p.tokens.IDToken, p.tokens.AccessToken), "", calls)
      [] OTHER -> GetResult(p, "", "invalid token_field", calls)

\* oauth2proxy.Provider.Get with doProxyAuthFlow; e.proxy is what the proxy
\* puts in its callback
ProxyGet(p, e, t) ==
    IF IsTokenValid(p.tokens, t) THEN formatToken(p, <<>>)
    ELSE IF ~e.browser THEN GetResult(p, "", "failed to open browser", <<"browser">>)
    ELSE IF e.wait.kind = "listenfail" THEN GetResult(p, "", "callback server", <<"browser">>)
    ELSE IF e.wait.kind # "callback"
    THEN GetResult(p, "", "callback server", <<"browser", "listen">>)
    ELSE IF e.proxy.token = "" /\ e.proxy.access_token = ""
    THEN GetResult(p, "", "no tokens received in callback",
                   <<"browser", "listen", "callback">>)
    ELSE formatToken([p EXCEPT !.tokens = TokenCache(e.proxy.access_token, "", e.proxy.token,
                                                     t + ProxyTokenExpiry)],
                     <<"browser", "listen", "callback">>)

ProviderGet(p, e, t) ==
    CASE p.type = "command" -> CommandGet(p, e)
      [] p.type = "oauth2-proxy" -> ProxyGet(p, e, t)
      [] p.type = "oauth2" -> OAuth2Get(p, e, t)
      [] p.type = "oauth2-client" -> ClientProviderGet(p, e, t)
      [] OTHER -> DeviceProviderGet(p, e, t)

(***************************************************************************)
(* Login(), SetTokens(), GetTokens()                                       *)
(***************************************************************************)
LoginResult(p, err, calls) == [prov |-> p, err |-> err, calls |-> calls]

\* oauth2.Provider.Login
OAuth2Login(p, e, t) ==
    LET d == AuthenticateDeviceFlow(e)
        ac == doAuthorizationCodeFlow(p, e, t)
        tokens == TokenCache(d.resp.AccessToken, d.resp.RefreshToken, d.resp.IDToken,
                             t + NormalizeExpiresIn(d.resp.ExpiresIn))
    IN  CASE p.flow = FlowDevice ->
               IF d.err THEN LoginResult(p, "device flow failed", d.calls)
               ELSE IF p.issuer # "" /\ tokens.IDToken # "" /\ ~e.idok
               THEN LoginResult(p, "ID token validation failed", d.calls \o <<"verify">>)
               ELSE LoginResult([p EXCEPT !.tokens = tokens], "",
                                d.calls \o (IF p.issuer # "" /\ tokens.IDToken # ""
                                            THEN <<"verify">> ELSE <<>>))
          [] p.flow = FlowAuthCode ->
               IF ac.err THEN LoginResult(p, "authorization code flow failed", ac.calls)
               ELSE LoginResult(ac.prov, "", ac.calls)
          [] p.flow = FlowClientCredentials ->
               LoginResult(p, "client-credentials flow does not support interactive login",
                           <<>>)
          [] OTHER -> LoginResult(p, "unsupported flow", <<>>)

\* oauth2.DeviceProvider.Login with DeviceProvider.authenticate
DeviceProviderLogin(p, e, t) ==
    LET d == AuthenticateDeviceFlow(e)
    IN  IF d.err THEN LoginResult(p, "device flow failed", d.calls)
        ELSE LoginResult([p EXCEPT !.tokens =
                              TokenCache(d.resp.AccessToken, d.resp.RefreshToken, "",
                                         t + NormalizeExpiresIn(d.resp.ExpiresIn))],
                         "", d.calls)

\* oauth2proxy.Provider.Login: the cache is cleared, then doProxyAuthFlow
ProxyLogin(p, e, t) ==
    IF ~e.browser
    THEN LoginResult([p EXCEPT !.tokens = NoTokens], "failed to open browser", <<"browser">>)
    ELSE IF e.wait.kind = "listenfail"
    THEN LoginResult([p EXCEPT !.tokens = NoTokens], "callback server", <<"browser">>)
    ELSE IF e.wait.kind # "callback"
    THEN LoginResult([p EXCEPT !.tokens = NoTokens], "callback server",
                     <<"browser", "listen">>)
    ELSE IF e.proxy.token = "" /\ e.proxy.access_token = ""
    THEN LoginResult([p EXCEPT !.tokens = NoTokens], "no tokens received in callback",
                     <<"browser", "listen", "callback">>)
    ELSE LoginResult([p EXCEPT !.tokens = TokenCache(e.proxy.access_token, "",
                                                     e.proxy.token, t + ProxyTokenExpiry)],
                     "", <<"browser", "listen", "callback">>)

\* the TokenCacheProvider capability: every variant but the command provider
IsTokenCacheProvider(p) ==
    p.type \in {"oauth2", "oauth2-client", "oauth2-device", "oauth2-proxy"}
IsLoginProvider(p) == p.type \in {"oauth2", "oauth2-device", "oauth2-proxy", "command"}

\* oauth2proxy.Provider.SetTokens: the second token goes to the IDToken field
ProxySetTokens(p, accessToken, refreshToken, expiresIn, t) ==
    [p EXCEPT !.tokens = TokenCache(accessToken, "", refreshToken, t + expiresIn)]

\* a SetTokens that writes the access token into the cache already installed
ProviderSetTokensInPlace(p, accessToken, refreshToken, expiresIn, t) ==
    IF p.tokens.nil
    THEN [p EXCEPT !.tokens = TokenCache(accessToken, refreshToken, "",
                                         t + NormalizeExpiresIn(expiresIn))]
    ELSE [p EXCEPT !.tokens.AccessToken = accessToken]

ProviderSetTokens(p, accessToken, refreshToken, expiresIn, t) ==
    IF p.type = "oauth2-proxy"
    THEN ProxySetTokens(p, accessToken, refreshToken, expiresIn, t)
    ELSE [p EXCEPT !.tokens = TokenCache(accessToken, refreshToken, "",
                                         t + NormalizeExpiresIn(expiresIn))]

ProviderGetTokens(p, t) ==
    IF p.tokens.nil THEN [accessToken |-> "", refreshToken |-> "", expiresIn |-> 0]
    ELSE [accessToken |-> p.tokens.AccessToken,
          refreshToken |-> IF p.type = "oauth2-proxy" THEN p.tokens.IDToken
                           ELSE p.tokens.RefreshToken,
          expiresIn |-> IF p.tokens.ExpiresAt - t < 0 THEN 0 ELSE p.tokens.ExpiresAt - t]

(***************************************************************************)
(* Persistence: one stored record per provider name.                       *)
(***************************************************************************)
NoFile == [exists |-> FALSE]
StoredProvider(type, data) == [exists |-> TRUE, Type |-> type, Data |-> data]

Exists(d, name) == name \in DOMAIN d /\ d[name].exists

\* provider.Save: the record written, or the disk unchanged when the write fails
Save(d, name, prov, writeOK) ==
    IF writeOK /\ name \in DOMAIN d
    THEN [err |-> FALSE, disk |-> [d EXCEPT ![name] = StoredProvider(prov.type, Metadata(prov))]]
    ELSE [err |-> TRUE, disk |-> d]

\* provider.Load with loadFromStored: a fresh instance initialised from the record
Load(d, name, doc) ==
    LET made(n) == IF n.err THEN [res |-> "err", prov |-> ZeroProvider(""), net |-> <<>>]
                   ELSE ProviderInit(n.prov, d[name].Data, doc)
    IN  IF ~Exists(d, name) THEN [res |-> "err", prov |-> ZeroProvider(""), net |-> <<>>]
        ELSE made(New(d[name].Type))

\* provider.Delete
DiskDelete(d, name) ==
    IF ~Exists(d, name) THEN [err |-> TRUE, disk |-> d]
    ELSE [err |-> FALSE, disk |-> [d EXCEPT ![name] = NoFile]]

(***************************************************************************)
(* Daemon State: the in-memory map over the on-disk store.                 *)
(***************************************************************************)
Names == {"a"}
NoProvider == [absent |-> TRUE]
Live(p) == [absent |-> FALSE, p |-> p]

\* State.LoadAll: every stored provider that loads, the others are skipped
LoadAll(d, doc) ==
    LET keep(l) == IF l.res = "ok" THEN Live(l.prov) ELSE NoProvider
    IN  [n \in Names |-> keep(Load(d, n, doc))]

\* State.Add(name, prov, force), as the Add handler calls it: an existing name
\* is an error unless force is set; the record is saved first, then the map
StateAdd(m, d, name, prov, force, writeOK) ==
    LET saved(s) ==
            IF s.err
            THEN [err |-> "save failed", mem |-> m, disk |-> d, steps |-> <<"Exists", "Save">>]
            ELSE [err |-> "", mem |-> [m EXCEPT ![name] = Live(prov)], disk |-> s.disk,
                  steps |-> <<"Exists", "Save">>]
    IN  IF Exists(d, name) /\ ~force
        THEN [err |-> "already exists", mem |-> m, disk |-> d, steps |-> <<"Exists">>]
        ELSE saved(Save(d, name, prov, writeOK))

\* State.Get: memory first, a fresh instance loaded from disk on a miss
StateGet(m, d, name, doc) ==
    LET loaded(l) == [err |-> l.res # "ok", prov |-> l.prov, fromMem |-> FALSE, net |-> l.net]
    IN  IF name \in DOMAIN m /\ ~m[name].absent
        THEN [err |-> FALSE, prov |-> m[name].p, fromMem |-> TRUE, net |-> <<>>]
        ELSE loaded(Load(d, name, doc))

\* State.Delete
StateDelete(m, d, name) ==
    LET deleted(x) == IF x.err THEN [err |-> TRUE, mem |-> m, disk |-> d]
                      ELSE [err |-> FALSE, mem |-> [m EXCEPT ![name] = NoProvider],
                            disk |-> x.disk]
    IN  deleted(DiskDelete(d, name))

(***************************************************************************)
(* Wire records                                                            *)
(***************************************************************************)
NoPayload == [none |-> TRUE]
GetResponsePayload(output, metadata) ==
    [none |-> FALSE, Output |-> output, Metadata |-> metadata]

Response(status, error, payload) ==
    [Status |-> status, Error |-> error, ErrorType |-> "", Payload |-> payload]
ErrorResponse(error) == Response("error", error, NoPayload)
OkResponse == Response("ok", "", NoPayload)

PermissionDenied == "permission denied"

\* A request payload as it arrives: a JSON object with the fields below, JSON
\* null, or something that does not decode into the payload struct (a scalar,
\* an array, a field of the wrong type).
Payload(shape, name, type, metadata, force, access, refresh, expiresIn) ==
    [shape |-> shape, name |-> name, type |-> type, metadata |-> metadata,
     force |-> force, access_token |-> access, refresh_token |-> refresh,
     expires_in |-> expiresIn]

\* a payload struct without the force field: the flag is lost in decoding
DecodeWithoutForce(payload) ==
    CASE payload.shape = "object" -> [err |-> FALSE, v |-> [payload EXCEPT !.force = FALSE]]
      [] payload.shape = "null" ->
            [err |-> FALSE, v |-> Payload("null", "", "", EmptyMap, FALSE, "", "", 0)]
      [] OTHER -> [err |-> TRUE, v |-> payload]

\* json.Marshal followed by json.Unmarshal into the payload struct
Decode(payload) ==
    CASE payload.shape = "object" -> [err |-> FALSE, v |-> payload]
      [] payload.shape = "null" ->
            [err |-> FALSE, v |-> Payload("null", "", "", EmptyMap, FALSE, "", "", 0)]
      [] OTHER -> [err |-> TRUE, v |-> payload]

\* what a handler returns: the response, the state after it, the steps of
\* provider logic it ran (in order) and whether it ended in a panic
Handled(resp, m, d, steps, panic) ==
    [resp |-> resp, mem |-> m, disk |-> d, steps |-> steps, panic |-> panic]

(***************************************************************************)
(* Action handlers                                                         *)
(***************************************************************************)
\* e.doc: the discovery endpoint's answer; e.write: the disk write succeeds
Add(m, d, payload, readOnly, e) ==
    LET ran == <<"decode", "New", "Init">>
        added(net, s) ==
            IF s.err # ""
            THEN Handled(ErrorResponse("failed to add provider"), s.mem, s.disk,
                         ran \o net \o s.steps, FALSE)
            ELSE Handled(OkResponse, s.mem, s.disk, ran \o net \o s.steps, FALSE)
        initialized(a, i) ==
            IF i.res = "panic" THEN Handled(ErrorResponse("panic"), m, d, ran, TRUE)
            ELSE IF i.res = "err"
            THEN Handled(ErrorResponse("failed to initialize provider"), m, d,
                         ran \o i.net, FALSE)
            ELSE added(i.net, StateAdd(m, d, a.name, i.prov, a.force, e.write))
        created(a, n) ==
            IF n.err
            THEN Handled(ErrorResponse("failed to create provider"), m, d,
                         <<"decode", "New">>, FALSE)
            ELSE initialized(a, ProviderInit(n.prov, a.metadata, e.doc))
        decoded(dec) ==
            IF dec.err
            THEN Handled(ErrorResponse("invalid payload"), m, d, <<"decode">>, FALSE)
            ELSE IF dec.v.name = ""
            THEN Handled(ErrorResponse("provider name cannot be empty"), m, d,
                         <<"decode">>, FALSE)
            ELSE IF dec.v.type = ""
            THEN Handled(ErrorResponse("provider type cannot be empty"), m, d,
                         <<"decode">>, FALSE)
            ELSE created(dec.v, New(dec.v.type))
    IN  IF readOnly THEN Handled(ErrorResponse(PermissionDenied), m, d, <<>>, FALSE)
        ELSE decoded(Decode(payload))

\* Get with the read-only check of the write handlers
GetDeniedOnReadOnly(m, d, payload, readOnly, e, t) ==
    LET got(name, g, r) ==
            LET m2 == IF g.fromMem THEN [m EXCEPT ![name] = Live(r.prov)] ELSE m
                ran == <<"decode", "State.Get">> \o g.net \o <<"Get">> \o r.calls
            IN  IF r.err = ErrAuthenticationRequired
                THEN Handled(ErrorResponse("authentication required"), m2, d, ran, FALSE)
                ELSE IF r.err # ""
                THEN Handled(ErrorResponse("failed to get credential"), m2, d, ran, FALSE)
                ELSE Handled(Response("ok", "", GetResponsePayload(r.out, Metadata(r.prov))),
                             m2, d, ran, FALSE)
        found(name, g) ==
            IF g.err
            THEN Handled(ErrorResponse("provider not found"), m, d,
                         <<"decode", "State.Get">> \o g.net, FALSE)
            ELSE got(name, g, ProviderGet(g.prov, e, t))
        decoded(dec) ==
            IF dec.err
            THEN Handled(ErrorResponse("invalid payload"), m, d, <<"decode">>, FALSE)
            ELSE found(dec.v.name, StateGet(m, d, dec.v.name, e.doc))
    IN  IF readOnly THEN Handled(ErrorResponse(PermissionDenied), m, d, <<>>, FALSE)
        ELSE decoded(Decode(payload))

Get(m, d, payload, readOnly, e, t) ==
    LET got(name, g, r) ==
            LET m2 == IF g.fromMem THEN [m EXCEPT ![name] = Live(r.prov)] ELSE m
                ran == <<"decode", "State.Get">> \o g.net \o <<"Get">> \o r.calls
            IN  IF r.err = ErrAuthenticationRequired
                THEN Handled(ErrorResponse("authentication required"), m2, d, ran, FALSE)
                ELSE IF r.err # ""
                THEN Handled(ErrorResponse("failed to get credential"), m2, d, ran, FALSE)
                ELSE Handled(Response("ok", "", GetResponsePayload(r.out, Metadata(r.prov))),
                             m2, d, ran, FALSE)
        found(name, g) ==
            IF g.err
            THEN Handled(ErrorResponse("provider not found"), m, d,
                         <<"decode", "State.Get">> \o g.net, FALSE)
            ELSE got(name, g, ProviderGet(g.prov, e, t))
        decoded(dec) ==
            IF dec.err
            THEN Handled(ErrorResponse("invalid payload"), m, d, <<"decode">>, FALSE)
            ELSE found(dec.v.name, StateGet(m, d, dec.v.name, e.doc))
    IN  decoded(Decode(payload))

\* Delete without the read-only check
DeleteUnguarded(m, d, payload, readOnly) ==
    LET deleted(s) ==
            IF s.err
            THEN Handled(ErrorResponse("failed to delete provider"), m, d,
                         <<"decode", "State.Delete">>, FALSE)
            ELSE Handled(OkResponse, s.mem, s.disk, <<"decode", "State.Delete">>, FALSE)
        decoded(dec) ==
            IF dec.err
            THEN Handled(ErrorResponse("invalid payload"), m, d, <<"decode">>, FALSE)
            ELSE IF dec.v.name = ""
            THEN Handled(ErrorResponse("provider name cannot be empty"), m, d,
                         <<"decode">>, FALSE)
            ELSE deleted(StateDelete(m, d, dec.v.name))
    IN  decoded(Decode(payload))

Delete(m, d, payload, readOnly) ==
    LET deleted(s) ==
            IF s.err
            THEN Handled(ErrorResponse("failed to delete provider"), m, d,
                         <<"decode", "State.Delete">>, FALSE)
            ELSE Handled(OkResponse, s.mem, s.disk, <<"decode", "State.Delete">>, FALSE)
        decoded(dec) ==
            IF dec.err
            THEN Handled(ErrorResponse("invalid payload"), m, d, <<"decode">>, FALSE)
            ELSE IF dec.v.name = ""
            THEN Handled(ErrorResponse("provider name cannot be empty"), m, d,
                         <<"decode">>, FALSE)
            ELSE deleted(StateDelete(m, d, dec.v.name))
    IN  IF readOnly THEN Handled(ErrorResponse(PermissionDenied), m, d, <<>>, FALSE)
        ELSE decoded(Decode(payload))

SetTokens(m, d, payload, readOnly, e, t) ==
    LET found(a, g) ==
            IF g.err
            THEN Handled(ErrorResponse("provider not found"), m, d,
                         <<"decode", "State.Get">>, FALSE)
            ELSE IF ~IsTokenCacheProvider(g.prov)
            THEN Handled(ErrorResponse("provider does not support token caching"), m, d,
                         <<"decode", "State.Get">>, FALSE)
            ELSE Handled(OkResponse,
                         IF g.fromMem
                         THEN [m EXCEPT ![a.name] =
                                  Live(ProviderSetTokens(g.prov, a.access_token,
                                                         a.refresh_token, a.expires_in, t))]
                         ELSE m,
                         d, <<"decode", "State.Get", "SetTokens">>, FALSE)
        decoded(dec) ==
            IF dec.err
            THEN Handled(ErrorResponse("invalid payload"), m, d, <<"decode">>, FALSE)
            ELSE IF dec.v.name = ""
            THEN Handled(ErrorResponse("provider name cannot be empty"), m, d,
                         <<"decode">>, FALSE)
            ELSE found(dec.v, StateGet(m, d, dec.v.name, e.doc))
    IN  decoded(Decode(payload))

(***************************************************************************)
(* handleConn: one accepted connection.  lines is what the client sends,   *)
(* line by line; the result records how many lines were read, the actions  *)
(* dispatched, the response lines written and the state afterwards.        *)
(***************************************************************************)
RequestLine(action, payload) == [kind |-> "json", action |-> action, payload |-> payload]
GarbageLine == [kind |-> "garbage", action |-> "", payload |-> NoPayload]
TooLongLine == [kind |-> "toolong", action |-> "", payload |-> NoPayload]

Served(read, dispatched, written, h) ==
    [read |-> read, dispatched |-> dispatched, written |-> written, closed |-> TRUE,
     mem |-> h.mem, disk |-> h.disk, steps |-> h.steps, panic |-> h.panic]

\* the cases of the switch on req.Action
KnownActions == {"add", "get", "delete", "set_tokens"}

\* handleConn with the scanner in a loop: after a request that was served, the
\* next line is read and served too
handleConnEveryLine(m, d, readOnly, lines, e, t) ==
    LET idle == Handled(OkResponse, m, d, <<>>, FALSE)
        dispatch(mm, dd, req) ==
            CASE req.action = "add" -> Add(mm, dd, req.payload, readOnly, e)
              [] req.action = "get" -> Get(mm, dd, req.payload, readOnly, e, t)
              [] req.action = "delete" -> Delete(mm, dd, req.payload, readOnly)
              [] req.action = "set_tokens" -> SetTokens(mm, dd, req.payload, readOnly, e, t)
              [] OTHER -> Handled(ErrorResponse("unknown action"), mm, dd, <<>>, FALSE)
        both(req, h, next, h2) ==
            Served(2, <<req.action, next.action>>, <<h.resp, h2.resp>>, h2)
        respond(req, h) ==
            IF req.action \notin KnownActions THEN Served(1, <<>>, <<h.resp>>, h)
            ELSE IF h.panic THEN Served(1, <<req.action>>, <<>>, h)
            ELSE IF Len(lines) > 1 /\ lines[2].kind = "json"
                     /\ lines[2].action \in KnownActions
            THEN both(req, h, lines[2], dispatch(h.mem, h.disk, lines[2]))
            ELSE Served(1, <<req.action>>, <<h.resp>>, h)
        scanned(req) ==
            IF req.kind = "toolong" THEN Served(0, <<>>, <<>>, idle)
            ELSE IF req.kind = "garbage"
            THEN Served(1, <<>>, <<ErrorResponse("invalid JSON")>>, idle)
            ELSE respond(req, dispatch(m, d, req))
    IN  IF lines = <<>> THEN Served(0, <<>>, <<>>, idle)
        ELSE scanned(lines[1])

handleConn(m, d, readOnly, lines, e, t) ==
    LET idle == Handled(OkResponse, m, d, <<>>, FALSE)
        dispatch(req) ==
            CASE req.action = "add" -> Add(m, d, req.payload, readOnly, e)
              [] req.action = "get" -> Get(m, d, req.payload, readOnly, e, t)
              [] req.action = "delete" -> Delete(m, d, req.payload, readOnly)
              [] req.action = "set_tokens" -> SetTokens(m, d, req.payload, readOnly, e, t)
              [] OTHER -> Handled(ErrorResponse("unknown action"), m, d, <<>>, FALSE)
        respond(req, h) ==
            IF req.action \notin KnownActions THEN Served(1, <<>>, <<h.resp>>, h)
            ELSE IF h.panic THEN Served(1, <<req.action>>, <<>>, h)
            ELSE Served(1, <<req.action>>, <<h.resp>>, h)
        scanned(req) ==
            IF req.kind = "toolong" THEN Served(0, <<>>, <<>>, idle)
            ELSE IF req.kind = "garbage"
            THEN Served(1, <<>>, <<ErrorResponse("invalid JSON")>>, idle)
            ELSE respond(req, dispatch(req))
    IN  IF lines = <<>> THEN Served(0, <<>>, <<>>, idle)
        ELSE scanned(lines[1])

(***************************************************************************)
(* Inputs of the model                                                     *)
(***************************************************************************)
CfgCommand == (MetadataCommand :> Str("echo hi"))
CfgClientCredentials ==
    ("flow" :> Str(FlowClientCredentials)) @@ (MetadataClientID :> Str("cid"))
      @@ (MetadataClientSecret :> Str("S1")) @@ (MetadataTokenEndpoint :> Str("https://idp/token"))
CfgDevice ==
    ("flow" :> Str(FlowDevice)) @@ (MetadataClientID :> Str("cid"))
      @@ (MetadataTokenEndpoint :> Str("https://idp/token"))
      @@ (MetadataDeviceEndpoint :> Str("https://idp/device"))
CfgAuthCode ==
    ("flow" :> Str(FlowAuthCode)) @@ (MetadataClientID :> Str("cid"))
      @@ (MetadataClientSecret :> Str("S1"))
      @@ (MetadataTokenEndpoint :> Str("https://idp/token"))
      @@ (MetadataAuthEndpoint :> Str("https://idp/auth"))
CfgAuthCodeExternal ==
    ("flow" :> Str(FlowAuthCode)) @@ (MetadataClientID :> Str("cid"))
      @@ (MetadataTokenEndpoint :> Str("https://idp/token"))
      @@ (MetadataAuthEndpoint :> Str("https://idp/auth"))
      @@ (MetadataRedirectURI :> Str(ExternalRedirectURI)) @@ ("use_pkce" :> Bool(FALSE))
CfgAuthCodeLocal ==
    ("flow" :> Str(FlowAuthCode)) @@ (MetadataClientID :> Str("cid"))
      @@ (MetadataTokenEndpoint :> Str("https://idp/token"))
      @@ (MetadataAuthEndpoint :> Str("https://idp/auth"))
      @@ (MetadataRedirectURI :> Str(LocalRedirectURI)) @@ (MetadataRedirectPort :> Num(9000))
CfgOIDC ==
    ("flow" :> Str(FlowDevice)) @@ (MetadataClientID :> Str("cid"))
      @@ (MetadataIssuer :> Str("https://idp"))

CfgProxy == ("auth_url" :> Str("https://proxy/auth?callback_url=http://localhost:8085/callback"))

CfgOIDCAuthCode ==
    ("flow" :> Str(FlowAuthCode)) @@ (MetadataClientID :> Str("cid"))
      @@ (MetadataIssuer :> Str("https://idp"))

\* an OIDC configuration that names its endpoints as well
CfgOIDCEndpoints ==
    CfgOIDC @@ (MetadataTokenEndpoint :> Str("https://idp/token"))
      @@ (MetadataDeviceEndpoint :> Str("https://idp/device"))

Doc == DiscoveryDoc("https://idp/token", "https://idp/auth", "https://idp/device")

\* the (type, metadata) pairs an add request carries
AddKinds ==
    {<<"command", CfgCommand>>, <<"command", EmptyMap>>,
     <<"oauth2", CfgClientCredentials>>, <<"oauth2", CfgDevice>>,
     <<"oauth2", CfgOIDC>>, <<"oauth2", CfgOIDCEndpoints>>, <<"oauth2", EmptyMap>>,
     <<"oauth2-client", CfgClientCredentials>>, <<"oauth2-device", CfgDevice>>,
     <<"nosuch", CfgCommand>>, <<"", CfgCommand>>}

Malformed == {Payload("scalar", "a", "command", CfgCommand, FALSE, "T9", "R9", 45),
              Payload("null", "", "", EmptyMap, FALSE, "", "", 0)}

AddPayloads ==
    {Payload("object", "a", k[1], k[2], f, "", "", 0) : k \in AddKinds, f \in BOOLEAN}
      \cup {Payload("object", "", "command", CfgCommand, FALSE, "", "", 0)}
      \cup Malformed

NamePayloads ==
    {Payload("object", n, "", EmptyMap, FALSE, "", "", 0) : n \in {"a", "zz", ""}}
      \cup Malformed

ExpiresIns == {0, 45}

SetTokensPayloads ==
    {Payload("object", "a", "", EmptyMap, FALSE, "T9", r, x) :
        r \in {"", "R9"}, x \in ExpiresIns}
      \cup {Payload("object", n, "", EmptyMap, FALSE, "T9", "", 45) : n \in {"", "zz"}}
      \cup Malformed

\* answers of the token endpoint
TokenResponses ==
    {NetFail,
     TokenResponse("invalid_grant", "", "", "", 0),
     TokenResponse("", "T1", "", "", 45),
     TokenResponse("", "T2", "R1", "I1", 0),
     TokenResponse("", "", "", "", 0)}

Waits ==
    {WaitEnds("listenfail"), WaitEnds("servererror"), WaitEnds("cancelled"),
     WaitEnds("timeout")}
      \cup {WaitCallback(st, er, co) :
              st \in {GeneratedState, "forged"}, er \in {"", "access_denied"},
              co \in {"", "code1"}}

\* the environment in which everything outside the program succeeds
Env0 ==
    [doc |-> Doc, write |-> TRUE,
     refresh |-> TokenResponse("", "T2", "R1", "I1", 0),
     grant |-> TokenResponse("", "T1", "", "", 45),
     browser |-> TRUE, wait |-> WaitCallback(GeneratedState, "", "code1"),
     stdin |-> "code1", idok |-> TRUE, devauth |-> TRUE,
     poll |-> TokenResponse("", "T1", "R1", "", 45),
     proxy |-> [token |-> "P1", access_token |-> "A1"],
     cmd |-> [exit |-> 0, stdout |-> "hi\n"]]

\* what an add depends on: the discovery endpoint and the disk write
AddEnvs == {Env0, [Env0 EXCEPT !.doc = DiscoveryFailed], [Env0 EXCEPT !.write = FALSE]}

\* what a get or a set_tokens depends on: discovery (a provider loaded from
\* disk), the command, and the token endpoint's answers to a refresh and a grant
GetEnvs ==
    {Env0, [Env0 EXCEPT !.doc = DiscoveryFailed],
     [Env0 EXCEPT !.cmd = [exit |-> 1, stdout |-> ""]],
     [Env0 EXCEPT !.refresh = NetFail, !.grant = NetFail],
     [Env0 EXCEPT !.refresh = NetFail],
     [Env0 EXCEPT !.grant = TokenResponse("invalid_grant", "", "", "", 0)],
     [Env0 EXCEPT !.grant = TokenResponse("", "", "", "", 0)]}

SetTokensEnvs == {Env0, [Env0 EXCEPT !.doc = DiscoveryFailed]}

(***************************************************************************)
(* State                                                                   *)
(***************************************************************************)
VARIABLES
    mem,       \* State.providers: name -> live provider instance
    disk,      \* the providers directory: name -> stored record
    up,        \* the daemon process is running
    now,       \* the clock, in seconds
    conn,      \* the connection handled last
    nreq,      \* connections handled so far
    prov,      \* a provider instance used directly (CLI side)
    plast,     \* the provider operation performed last on prov
    poll,      \* the poll loop of a device flow in progress
    call,      \* the Provider.Get call of a get request in progress
    reg,       \* the provider registry of the process, and its use so far
    boot,      \* the daemon processes of one home directory and its socket files
    thr,       \* the handler goroutines inside State, its lock, map and files
    race,      \* the handler goroutines inside Get of one provider instance
    srv        \* the local callback listener of the login flows and the flows run so far

vars == <<mem, disk, up, now, conn, nreq, prov, plast, poll, call, reg, boot, thr, race, srv>>
sysVars == <<reg, boot, thr, race, srv>>
daemonVars == <<mem, disk, up, conn, nreq>>
provVars == <<prov, plast>>
pollVars == <<poll, call>>

\* conn: the socket, what the client sent (number of lines, the name and force
\* flag of the first request, whether that name was stored when it arrived)
\* and what handleConn did with it
NoConn ==
    [readOnly |-> FALSE, sent |-> 0, name |-> "", force |-> FALSE, existed |-> FALSE,
     read |-> 0, dispatched |-> <<>>, written |-> <<>>, closed |-> FALSE,
     steps |-> <<>>, panic |-> FALSE]

NameOf(lines) ==
    IF lines # <<>> /\ lines[1].kind = "json" /\ lines[1].payload # NoPayload
        /\ lines[1].payload.shape = "object"
    THEN lines[1].payload.name ELSE ""

ForceOf(lines) ==
    IF lines # <<>> /\ lines[1].kind = "json" /\ lines[1].payload # NoPayload
        /\ lines[1].payload.shape = "object"
    THEN lines[1].payload.force ELSE FALSE

\* plast: the operation, what it returned, the outside interactions it made,
\* and whether it found a valid cache and a refresh token
NoOp ==
    [op |-> "none", out |-> "", err |-> "", calls |-> <<>>, valid |-> FALSE,
     hadRefresh |-> FALSE]

\* call: where the Get handler stands in its call of Provider.Get, the outside
\* interactions the call still has to wait for, the deadline of its context,
\* what the call will return, and what the handler answered and when
NoCall ==
    [pc |-> "idle", ops |-> <<>>, start |-> 0, deadline |-> 0, gets |-> 0,
     ret |-> [prov |-> ZeroProvider(""), out |-> "", err |-> ""],
     status |-> "", error |-> "", answeredAt |-> 0, expired |-> FALSE]

\* reg: the registry map, the calls made to each factory, the Register calls
\* in their order, and the Register or New call made last
NoRegOp == [op |-> "none", type |-> "", err |-> "", by |-> "", before |-> <<>>, calls |-> <<>>]

Factories == {"f1", "f2"}

RegistryState(registry) ==
    [registry |-> registry, calls |-> [f \in Factories |-> 0], log |-> <<>>,
     last |-> NoRegOp]

\* the registry once every provider package has run its init()
RegistryAfterInit == RegistryState([t \in RegisteredTypes |-> t])

\* boot: for each process where it stands in Run, the sockets it listens on
\* and what its connect-probe found; for each socket path the process that
\* created the file there; the holder of the pid-file lock; the starts so far
Procs == {"r", "s1", "s2"}
Paths == {"admin", "readonly"}

BootState(pc, owner, lock) ==
    [pc |-> pc,
     lis |-> [p \in Procs |-> IF pc[p] = "running" THEN Paths ELSE {}],
     probe |-> [p \in Procs |-> "none"],
     files |-> [f \in Paths |-> owner],
     lock |-> lock, starts |-> 0]

NoBoot == BootState([p \in Procs |-> "idle"], "none", "none")

\* thr: for each handler goroutine the State method it is in, where it stands
\* in it, how its last call ended, whether the name had no file when the call
\* was made and which goroutines were then inside an Add of the same name
\* and have made no call since; the holders of State.mu; the map and the
\* provider files of this daemon; the names Add inserted; the calls so far
Threads == {"t1", "t2"}
LockNames == {"a", "b"}

ThreadState(providers, files, alive) ==
    [pc |-> [t \in Threads |-> "idle"],
     op |-> [t \in Threads |-> "none"],
     name |-> [t \in Threads |-> ""],
     kind |-> [t \in Threads |-> <<>>],
     res |-> [t \in Threads |-> ""],
     fresh |-> [t \in Threads |-> FALSE],
     over |-> [t \in Threads |-> {}],
     readers |-> {}, writer |-> "none",
     providers |-> providers, files |-> files,
     added |-> {}, alive |-> alive, calls |-> 0]

NoThreads ==
    ThreadState([n \in LockNames |-> NoProvider], [n \in LockNames |-> NoFile], FALSE)

\* race: the provider instance the map holds, and for each handler goroutine
\* that got it from State.Get where it stands in the instance's Get, the
\* token response it is about to install and what its Get returned; the
\* requests sent to the token endpoint so far and the Get calls so far
RaceState(p) ==
    [p |-> p,
     pc |-> [t \in Threads |-> "idle"],
     got |-> [t \in Threads |-> NoCache],
     out |-> [t \in Threads |-> ""],
     err |-> [t \in Threads |-> ""],
     sent |-> <<>>, gets |-> 0]

NoRace == RaceState(ZeroProvider(""))

\* srv: the ports a listener of this process is bound to; where the flow in
\* progress stands, its port and how its wait ended; how each flow so far
\* returned
NoServer == [bound |-> {}, pc |-> "idle", port |-> 0, end |-> "", log |-> <<>>]

EmptyDisk == [n \in Names |-> NoFile]

\* the providers directories a daemon may find when it starts
InitialDisks ==
    {EmptyDisk}
      \cup {[n \in Names |-> StoredProvider(k[1], k[2])] :
              k \in {<<"oauth2", CfgClientCredentials>>,
                     <<"oauth2", Metadata(OAuth2Init(ZeroProvider("oauth2"), CfgOIDC, Doc).prov)>>,
                     <<"oauth2-device", CfgDevice>>, <<"command", CfgCommand>>}}

\* the daemon has started: NewState has loaded the providers directory
Init ==
    /\ disk \in InitialDisks
    /\ \E doc \in {Doc, DiscoveryFailed} : mem = LoadAll(disk, doc)
    /\ up = TRUE
    /\ now = 0
    /\ conn = NoConn
    /\ nreq = 0
    /\ prov = ZeroProvider("")
    /\ plast = NoOp
    /\ poll = NoPoll
    /\ call = NoCall
    /\ reg = RegistryAfterInit
    /\ boot = NoBoot
    /\ thr = NoThreads
    /\ race = NoRace
    /\ srv = NoServer

\* the accept loops hand one connection to handleConn
Serve(readOnly, lines, e) ==
    \E s \in {handleConn(mem, disk, readOnly, lines, e, now)} :
        /\ up
        /\ nreq < MaxReqs
        /\ nreq' = nreq + 1
        /\ mem' = s.mem
        /\ disk' = s.disk
        /\ up' = ~s.panic
        /\ conn' = [readOnly |-> readOnly, sent |-> Len(lines), name |-> NameOf(lines),
                    force |-> ForceOf(lines), existed |-> Exists(disk, NameOf(lines)),
                    read |-> s.read, dispatched |-> s.dispatched,
                    written |-> s.written, closed |-> s.closed, steps |-> s.steps,
                    panic |-> s.panic]
        /\ UNCHANGED <<now, prov, plast, pollVars, sysVars>>

\* a second request line sent on the same connection
SecondLine == RequestLine("delete", Payload("object", "a", "", EmptyMap, FALSE, "", "", 0))

ConnAdd ==
    \E ro \in BOOLEAN, pl \in AddPayloads, e \in AddEnvs :
        Serve(ro, <<RequestLine("add", pl)>>, e)

ConnGet ==
    \E ro \in BOOLEAN, pl \in NamePayloads, e \in GetEnvs :
        Serve(ro, <<RequestLine("get", pl)>>, e)

ConnDelete ==
    \E ro \in BOOLEAN, pl \in NamePayloads :
        Serve(ro, <<RequestLine("delete", pl)>>, Env0)

ConnSetTokens ==
    \E ro \in BOOLEAN, pl \in SetTokensPayloads, e \in SetTokensEnvs :
        Serve(ro, <<RequestLine("set_tokens", pl)>>, e)

\* two request lines on one connection, the first of any kind
ConnTwoLines ==
    \E ro \in BOOLEAN,
       first \in {RequestLine("get", Payload("object", "a", "", EmptyMap, FALSE, "", "", 0)),
                  RequestLine("list", NoPayload), GarbageLine, TooLongLine} :
        Serve(ro, <<first, SecondLine>>, Env0)

ConnUnknown ==
    \E ro \in BOOLEAN, a \in {"list", ""} : Serve(ro, <<RequestLine(a, NoPayload)>>, Env0)

ConnGarbage ==
    \E ro \in BOOLEAN, l \in {GarbageLine, TooLongLine} : Serve(ro, <<l>>, Env0)

\* a client that connects and closes without sending anything
ConnNoData ==
    \E ro \in BOOLEAN : Serve(ro, <<>>, Env0)

\* Run in a new process after the daemon died: NewState loads the directory
Start ==
    \E doc \in {Doc, DiscoveryFailed} :
        /\ ~up
        /\ up' = TRUE
        /\ mem' = LoadAll(disk, doc)
        /\ UNCHANGED <<disk, now, conn, nreq, prov, plast, pollVars, sysVars>>

Tick ==
    /\ now < MaxTime
    /\ now' = now + TickStep
    /\ UNCHANGED <<daemonVars, sysVars, provVars, pollVars>>

Next ==
    \/ ConnAdd
    \/ ConnGet
    \/ ConnDelete
    \/ ConnSetTokens
    \/ ConnTwoLines
    \/ ConnUnknown
    \/ ConnGarbage
    \/ ConnNoData
    \/ Start
    \/ Tick

Spec == Init /\ [][Next]_vars

(***************************************************************************)
(* A provider instance used directly, as the CLI does (credctl login) and  *)
(* as the daemon's Get handler does through the Provider interface.        *)
(***************************************************************************)
\* the providers Init accepts, one per variant and flow
InitialProviders ==
    {ProviderInit(New(k[1]).prov, k[2], Doc).prov :
        k \in {<<"oauth2", CfgClientCredentials>>, <<"oauth2", CfgDevice>>,
               <<"oauth2", CfgOIDC>>, <<"oauth2", CfgOIDCAuthCode>>,
               <<"oauth2", CfgAuthCode>>,
               <<"oauth2", CfgAuthCodeLocal>>, <<"oauth2", CfgAuthCodeExternal>>,
               <<"oauth2-client", CfgClientCredentials>>,
               <<"oauth2-device", CfgDevice>>, <<"oauth2-proxy", CfgProxy>>,
               <<"oauth2-proxy", ("token_field" :> Str("both")) @@ CfgProxy>>,
               <<"command", CfgCommand>>}}

\* the outside world of one provider operation
ProvEnvs ==
    {[Env0 EXCEPT !.refresh = r, !.grant = g] : r, g \in TokenResponses}
      \cup {[Env0 EXCEPT !.wait = w, !.stdin = i, !.grant = g] :
               w \in Waits, i \in {"", "EOF", "code1"},
               g \in {NetFail, TokenResponse("", "T1", "R1", "", 45)}}
      \cup {[Env0 EXCEPT !.browser = FALSE], [Env0 EXCEPT !.devauth = FALSE],
            [Env0 EXCEPT !.idok = FALSE, !.poll = TokenResponse("", "T1", "R1", "I1", 45)],
            [Env0 EXCEPT !.idok = FALSE, !.grant = TokenResponse("", "T2", "R1", "I1", 0)],
            [Env0 EXCEPT !.poll = TokenResponse("", "T1", "R1", "I1", 45)],
            [Env0 EXCEPT !.poll = NetFail],
            [Env0 EXCEPT !.poll = TokenResponse("access_denied", "", "", "", 0)],
            [Env0 EXCEPT !.proxy = [token |-> "", access_token |-> ""]],
            [Env0 EXCEPT !.proxy = [token |-> "P1", access_token |-> ""]],
            [Env0 EXCEPT !.proxy = [token |-> "", access_token |-> "A1"]],
            [Env0 EXCEPT !.grant = TokenResponse("", "T3", "R3", "", TickStep),
                         !.poll = TokenResponse("", "T3", "R3", "", TickStep)],
            [Env0 EXCEPT !.cmd = [exit |-> 1, stdout |-> ""]]}

HoldsRefreshToken(p) == IsTokenCacheProvider(p) /\ ~p.tokens.nil /\ p.tokens.RefreshToken # ""
HoldsValidToken(p, t) == IsTokenCacheProvider(p) /\ IsTokenValid(p.tokens, t)

InitProv ==
    /\ disk = EmptyDisk
    /\ mem = LoadAll(EmptyDisk, Doc)
    /\ up = FALSE
    /\ now = 0
    /\ conn = NoConn
    /\ nreq = 0
    /\ prov \in InitialProviders
    /\ plast = NoOp
    /\ poll = NoPoll
    /\ call = NoCall
    /\ reg = RegistryAfterInit
    /\ boot = NoBoot
    /\ thr = NoThreads
    /\ race = NoRace
    /\ srv = NoServer

\* prov.Get() in the environment e
PGetWith(e) ==
    \E r \in {ProviderGet(prov, e, now)} :
        /\ prov' = r.prov
        /\ plast' = [op |-> "Get", out |-> r.out, err |-> r.err, calls |-> r.calls,
                     valid |-> HoldsValidToken(prov, now),
                     hadRefresh |-> HoldsRefreshToken(prov)]
        /\ UNCHANGED <<daemonVars, sysVars, now, pollVars>>

\* prov.Login() in the environment e, for the variants that have it
PLoginWith(e) ==
    /\ prov.type \in {"oauth2", "oauth2-device", "oauth2-proxy"}
    /\ \E r \in {IF prov.type = "oauth2" THEN OAuth2Login(prov, e, now)
                  ELSE IF prov.type = "oauth2-proxy" THEN ProxyLogin(prov, e, now)
                  ELSE DeviceProviderLogin(prov, e, now)} :
        /\ prov' = r.prov
        /\ plast' = [op |-> "Login", out |-> "", err |-> r.err, calls |-> r.calls,
                     valid |-> HoldsValidToken(prov, now),
                     hadRefresh |-> HoldsRefreshToken(prov)]
    /\ UNCHANGED <<daemonVars, sysVars, now>>

PGet == \E e \in ProvEnvs : PGetWith(e)
PLogin == \E e \in ProvEnvs : PLoginWith(e) /\ UNCHANGED pollVars

\* prov.SetTokens(accessToken, refreshToken, expiresIn)
PSetTokens ==
    \E r \in {"", "R9"}, x \in ExpiresIns :
        /\ IsTokenCacheProvider(prov)
        /\ prov' = ProviderSetTokens(prov, "T9", r, x, now)
        /\ plast' = [op |-> "SetTokens", out |-> "", err |-> "", calls |-> <<>>,
                     valid |-> HoldsValidToken(prov, now),
                     hadRefresh |-> HoldsRefreshToken(prov)]
        /\ UNCHANGED <<daemonVars, sysVars, now, pollVars>>

NextProv ==
    \/ PGet
    \/ PLogin
    \/ PSetTokens
    \/ Tick

SpecProv == InitProv /\ [][NextProv]_vars

(***************************************************************************)
(* A device-flow login, with its poll loop taken one iteration at a time.  *)
(***************************************************************************)
MaxLatency == 1
MaxPollTime == 40

\* what the device-authorization endpoint may answer; expires_in is 0 when the
\* response leaves it out
DeviceAuths == {DeviceAuthResponse(i, x) : i \in {0, 2}, x \in {0, 4, 11}}

\* what the token endpoint may answer to one poll
PollAnswers ==
    {NetFail, BadJSON, TokenResponse("", "T1", "R1", "", 45)}
      \cup {TokenResponse(er, "", "", "", 0) :
               er \in {"authorization_pending", "slow_down", "expired_token",
                        "access_denied", "invalid_client"}}

AnswerTag(r) == IF r.net = "ok" THEN r.Error ELSE r.net

\* what AuthenticateDeviceFlow gets back from the loop
PollOutcome(pl) == IF pl.err # "" THEN NetFail ELSE pl.resp

InitPoll ==
    /\ InitProv
    /\ prov.type = "oauth2-device" \/ prov.flow = FlowDevice

\* AuthenticateDeviceFlow got the device authorization and enters the loop
\* and the clock moves on by d between the reading that sets the deadline and
\* the first reading at the head of the loop
PollStart ==
    \E da \in DeviceAuths, d \in 0..MaxLatency :
        /\ poll.pc = "idle"
        /\ poll' = pollEnter(da, now)
        /\ now' = now + d
        /\ UNCHANGED <<daemonVars, sysVars, provVars, call>>

PollTop ==
    /\ poll.pc = "top"
    /\ poll' = pollTop(poll, now)
    /\ UNCHANGED <<daemonVars, sysVars, provVars, now, call>>

\* one POST to the token endpoint, answered by r after d seconds
PollPost ==
    \E r \in PollAnswers, d \in 0..MaxLatency :
        /\ poll.pc = "post"
        /\ now + d <= MaxPollTime
        /\ now' = now + d
        /\ poll' = pollSwitch([poll EXCEPT !.sent = poll.sent + 1, !.lastSent = now,
                                           !.last = AnswerTag(r)], r)
        /\ UNCHANGED <<daemonVars, sysVars, provVars, call>>

\* time.Sleep(interval)
PollSleep ==
    /\ poll.pc = "sleep"
    /\ now + poll.interval <= MaxPollTime
    /\ now' = now + poll.interval
    /\ poll' = [poll EXCEPT !.pc = "top", !.nwaits = poll.nwaits + 1,
                            !.waited = poll.waited + poll.interval,
                            !.lastWait = poll.interval]
    /\ UNCHANGED <<daemonVars, sysVars, provVars, call>>

\* the context of the login is cancelled
PollCancel ==
    /\ poll.pc \in {"top", "post", "sleep"}
    /\ ~poll.cancelled
    /\ poll' = [poll EXCEPT !.cancelled = TRUE]
    /\ UNCHANGED <<daemonVars, sysVars, provVars, now, call>>

\* the loop has returned and Login() finishes with what it returned
PollDone ==
    /\ poll.pc = "returned"
    /\ poll' = [poll EXCEPT !.pc = "done"]
    /\ PLoginWith([Env0 EXCEPT !.poll = PollOutcome(poll)])
    /\ UNCHANGED call

NextPoll ==
    \/ PollStart
    \/ PollTop
    \/ PollPost
    \/ PollSleep
    \/ PollCancel
    \/ PollDone

SpecPoll == InitPoll /\ [][NextPoll]_vars

\* the loop keeps running and each of its requests is answered
SpecPollFair ==
    SpecPoll /\ WF_vars(PollTop) /\ WF_vars(PollPost) /\ WF_vars(PollSleep)

(***************************************************************************)
(* The Get handler's call of Provider.Get under its context, over time.    *)
(* The call waits for each of its outside interactions in turn; an         *)
(* interaction that was given the context ends when the context does.      *)
(***************************************************************************)
GetTimeout == 60
CallTickStep == 30
MaxCallTime == 90

\* the interactions a Get() waits for: the subprocess, the OAuth callback, the
\* operator's input, the POSTs to the token endpoint, the ID-token check
IsBlocking(op) ==
    op \in {"exec", "callback", "stdin", "refresh", "client_credentials", "exchange", "verify"}

\* exec.CommandContext, StartCallbackServer and the OIDC verifier take the
\* context; postFormJSON and the read of stdin do not
HonoursContext(op) == op \in {"exec", "callback", "verify"}

CallEnvs ==
    {Env0, [Env0 EXCEPT !.refresh = NetFail], [Env0 EXCEPT !.grant = NetFail],
     [Env0 EXCEPT !.cmd = [exit |-> 1, stdout |-> ""]]}

\* the call waits for an interaction that ends with the context
CallCancellable == call.pc = "running" /\ call.ops # <<>> /\ HonoursContext(Head(call.ops))

\* the handler makes its context and calls prov.Get(ctx)
CallBegin ==
    \E e \in CallEnvs : \E r \in {ProviderGet(prov, e, now)} :
        /\ call.pc = "idle"
        /\ call' = [NoCall EXCEPT !.pc = "running", !.ops = SelectSeq(r.calls, IsBlocking),
                                  !.start = now, !.deadline = now + GetTimeout,
                                  !.gets = call.gets + 1,
                                  !.ret = [prov |-> r.prov, out |-> r.out, err |-> r.err]]
        /\ UNCHANGED <<daemonVars, sysVars, provVars, now, poll>>

\* the interaction the call waits for comes to its end
CallProceed ==
    /\ call.pc = "running"
    /\ call.ops # <<>>
    /\ ~(HonoursContext(Head(call.ops)) /\ now > call.deadline)
    /\ call' = [call EXCEPT !.ops = Tail(call.ops)]
    /\ UNCHANGED <<daemonVars, sysVars, provVars, now, poll>>

\* the context ends an interaction that was given it: Get returns its error
CallExpire ==
    /\ CallCancellable
    /\ now >= call.deadline
    /\ call' = [call EXCEPT !.pc = "answered", !.status = "error",
                            !.error = "failed to get credential", !.expired = TRUE,
                            !.answeredAt = now]
    /\ UNCHANGED <<daemonVars, sysVars, provVars, now, poll>>

\* Get has returned and the handler answers
CallReturn ==
    /\ call.pc = "running"
    /\ call.ops = <<>>
    /\ call' = [call EXCEPT !.pc = "answered",
                            !.status = IF call.ret.err = "" THEN "ok" ELSE "error",
                            !.error = IF call.ret.err = "" THEN ""
                                      ELSE IF call.ret.err = ErrAuthenticationRequired
                                      THEN "authentication required"
                                      ELSE "failed to get credential",
                            !.answeredAt = now]
    /\ prov' = call.ret.prov
    /\ UNCHANGED <<daemonVars, sysVars, plast, now, poll>>

\* time passes, but not beyond the moment the context ends what it can end
CallTick ==
    /\ now < MaxCallTime
    /\ ~(call.pc = "running" /\ call.ops = <<>>)
    /\ ~(CallCancellable /\ now >= call.deadline)
    /\ now' = IF CallCancellable /\ now + CallTickStep > call.deadline
              THEN call.deadline ELSE now + CallTickStep
    /\ UNCHANGED <<daemonVars, sysVars, provVars, pollVars>>

NextCall ==
    \/ CallBegin
    \/ CallProceed
    \/ CallExpire
    \/ CallReturn
    \/ CallTick
    \/ (call.pc = "idle" /\ PSetTokens)

SpecCall == InitProv /\ [][NextCall]_vars

(***************************************************************************)
(* The provider registry: Register and New on a registry that starts       *)
(* empty, as the tests of the package use it.                              *)
(***************************************************************************)
MaxRegs == 3
MaxNews == 2

RegTypes == {"overwrite-test", "instance-test"}
EmptyRegistry == [t \in {} |-> ""]

\* Register that keeps the factory a type already has
RegisterFirstWins(registry, providerType, factory) ==
    IF providerType \in DOMAIN registry THEN registry
    ELSE (providerType :> factory) @@ registry

\* Register: registry[providerType] = factory
Register(registry, providerType, factory) ==
    (providerType :> factory) @@ registry

\* New on a registry: the factory called, or the error
RegistryNew(registry, providerType) ==
    IF providerType \notin DOMAIN registry
    THEN [err |-> "unknown provider type", by |-> ""]
    ELSE [err |-> "", by |-> registry[providerType]]

\* no daemon serves and no provider is in use
Quiescent ==
    /\ disk = EmptyDisk
    /\ mem = LoadAll(EmptyDisk, Doc)
    /\ up = FALSE
    /\ now = 0
    /\ conn = NoConn
    /\ nreq = 0
    /\ prov = ZeroProvider("")
    /\ plast = NoOp
    /\ poll = NoPoll
    /\ call = NoCall

InitReg ==
    /\ Quiescent
    /\ reg = RegistryState(EmptyRegistry)
    /\ boot = NoBoot
    /\ thr = NoThreads
    /\ race = NoRace
    /\ srv = NoServer

RegRegister ==
    \E t \in RegTypes, f \in Factories :
        /\ Len(reg.log) < MaxRegs
        /\ reg' = [reg EXCEPT !.registry = Register(reg.registry, t, f),
                              !.log = Append(reg.log, <<t, f>>),
                              !.last = [op |-> "Register", type |-> t, err |-> "", by |-> f,
                                        before |-> reg.registry, calls |-> reg.calls]]
        /\ UNCHANGED <<daemonVars, provVars, pollVars, now, boot, thr, race, srv>>

RegNew ==
    \E t \in RegTypes \cup {"unknown-provider-xyz"} :
        \E r \in {RegistryNew(reg.registry, t)} :
            /\ \A f \in Factories : reg.calls[f] < MaxNews
            /\ reg' = [reg EXCEPT !.calls = [f \in Factories |->
                                               IF r.err = "" /\ f = r.by THEN reg.calls[f] + 1
                                               ELSE reg.calls[f]],
                                  !.last = [op |-> "New", type |-> t, err |-> r.err,
                                            by |-> r.by, before |-> reg.registry,
                                            calls |-> reg.calls]]
            /\ UNCHANGED <<daemonVars, provVars, pollVars, now, boot, thr, race, srv>>

NextReg ==
    \/ RegRegister
    \/ RegNew

SpecReg == InitReg /\ [][NextReg]_vars

(***************************************************************************)
(* Daemon start: the child part of Run, one system call at a time.  The    *)
(* process "r" may be running from the beginning, with or without the      *)
(* pid-file lock in its hands (the pid file may have been deleted under    *)
(* it); the others start through Reborn, which takes the pid-file lock.    *)
(***************************************************************************)
MaxStarts == 3

\* net.Dial on the admin path that finds no listener behind the file
DialRefused(b) == FALSE

\* net.Dial on the admin path: some process listens behind the file there
Dial(b) ==
    b.files["admin"] # "none" /\ "admin" \in b.lis[b.files["admin"]]

\* the process leaves Run: its listeners close and Release gives the lock back
Leave(b, p, pc) ==
    [b EXCEPT !.pc[p] = pc, !.lis[p] = {},
              !.lock = IF b.lock = p THEN "none" ELSE b.lock]

InitBoot ==
    /\ Quiescent
    /\ reg = RegistryAfterInit
    /\ boot \in {NoBoot,
                  BootState([p \in Procs |-> IF p = "r" THEN "running" ELSE "idle"], "r", "r"),
                  BootState([p \in Procs |-> IF p = "r" THEN "running" ELSE "idle"], "r", "none"),
                  BootState([p \in Procs |-> IF p = "r" THEN "dead" ELSE "idle"], "r", "none")}
    /\ thr = NoThreads
    /\ race = NoRace
    /\ srv = NoServer

BootUnchanged == UNCHANGED <<daemonVars, provVars, pollVars, now, reg, thr, race, srv>>

\* cntxt.Reborn: the child goes on when it got the pid-file lock
Reborn(p) ==
    /\ boot.pc[p] \in {"idle", "exited", "dead"}
    /\ boot.lock = "none"
    /\ boot.starts < MaxStarts
    /\ boot' = [boot EXCEPT !.pc[p] = "stat", !.lock = p, !.probe[p] = "none",
                            !.starts = boot.starts + 1]
    /\ BootUnchanged

\* os.Stat(adminSocketPath)
StatAdmin(p) ==
    /\ boot.pc[p] = "stat"
    /\ boot' = [boot EXCEPT !.pc[p] = IF boot.files["admin"] # "none" THEN "dial"
                                      ELSE "removeReadOnly"]
    /\ BootUnchanged

\* net.Dial("unix", adminSocketPath): "daemon already running", or go on
Probe(p) ==
    /\ boot.pc[p] = "dial"
    /\ boot' = IF Dial(boot)
               THEN [Leave(boot, p, "exited") EXCEPT !.probe[p] = "ok"]
               ELSE [boot EXCEPT !.pc[p] = "removeAdmin", !.probe[p] = "failed"]
    /\ BootUnchanged

\* os.Remove(adminSocketPath)
RemoveAdmin(p) ==
    /\ boot.pc[p] = "removeAdmin"
    /\ boot' = [boot EXCEPT !.pc[p] = "removeReadOnly", !.files["admin"] = "none"]
    /\ BootUnchanged

\* os.Remove(readOnlySocketPath)
RemoveReadOnly(p) ==
    /\ boot.pc[p] = "removeReadOnly"
    /\ boot' = [boot EXCEPT !.pc[p] = "listenAdmin", !.files["readonly"] = "none"]
    /\ BootUnchanged

\* net.Listen("unix", adminSocketPath)
ListenAdmin(p) ==
    /\ boot.pc[p] = "listenAdmin"
    /\ boot' = IF boot.files["admin"] # "none" THEN Leave(boot, p, "exited")
               ELSE [boot EXCEPT !.pc[p] = "listenReadOnly", !.files["admin"] = p,
                                 !.lis[p] = {"admin"}]
    /\ BootUnchanged

\* net.Listen("unix", readOnlySocketPath); on failure the deferred Close of
\* the admin listener unlinks the admin socket
ListenReadOnly(p) ==
    /\ boot.pc[p] = "listenReadOnly"
    /\ boot' = IF boot.files["readonly"] # "none"
               THEN [Leave(boot, p, "exited") EXCEPT !.files["admin"] = "none"]
               ELSE [boot EXCEPT !.pc[p] = "running", !.files["readonly"] = p,
                                 !.lis[p] = Paths]
    /\ BootUnchanged

\* the process is killed or crashes: no handler runs, the socket files stay
Killed(p) ==
    /\ boot.pc[p] \notin {"idle", "exited", "dead"}
    /\ boot' = Leave(boot, p, "dead")
    /\ BootUnchanged

NextBoot ==
    \E p \in Procs :
        \/ Reborn(p)
        \/ StatAdmin(p)
        \/ Probe(p)
        \/ RemoveAdmin(p)
        \/ RemoveReadOnly(p)
        \/ ListenAdmin(p)
        \/ ListenReadOnly(p)
        \/ Killed(p)

SpecBoot == InitBoot /\ [][NextBoot]_vars

Range(f) == {f[i] : i \in DOMAIN f}

TypeOK ==
    /\ up \in BOOLEAN
    /\ now \in 0..(MaxTime + TickStep) \cup 0..MaxPollTime \cup 0..(MaxCallTime + CallTickStep)
    /\ nreq \in 0..MaxReqs
    /\ \A n \in Names : mem[n].absent \/ mem[n].p.type \in RegisteredTypes

(***************************************************************************)
(* Properties of the daemon                                                *)
(***************************************************************************)
Denied == <<ErrorResponse(PermissionDenied)>>

\* the step that served one connection
Served1 == nreq' = nreq + 1

\* C1: an add or a delete arriving on the read-only socket is answered
\* "permission denied" and leaves the providers in memory and on disk as they
\* were, whatever the payload; the check comes first: nothing is decoded and
\* no provider logic runs.
C1_ReadOnlyMutationDenied ==
    [][(Served1 /\ conn'.readOnly /\ conn'.dispatched \in {<<"add">>, <<"delete">>})
         => (/\ conn'.written = Denied
             /\ conn'.steps = <<>>
             /\ mem' = mem
             /\ disk' = disk)]_vars

\* a read-only delete of a provider that is stored was denied
C1_Witness ==
    /\ conn.readOnly
    /\ conn.dispatched = <<"delete">>
    /\ conn.existed
    /\ conn.written = Denied
    /\ Exists(disk, conn.name)

\* C2: a set_tokens arriving on the read-only socket is answered "permission
\* denied" and leaves every provider's token cache unchanged.
C2_ReadOnlySetTokensDenied ==
    [][(Served1 /\ conn'.readOnly /\ conn'.dispatched = <<"set_tokens">>)
         => (conn'.written = Denied /\ mem' = mem)]_vars

\* the secrets a provider holds besides the access token it serves
SecretsOf(p) ==
    ({p.clientSecret} \cup (IF p.tokens.nil THEN {}
                            ELSE {p.tokens.RefreshToken, p.tokens.IDToken})) \ {""}

ServedTokenOf(p) == IF p.tokens.nil THEN {} ELSE {p.tokens.AccessToken}

\* C3: the payload of a successful get carries neither the refresh token, nor
\* the ID token, nor the client secret of the provider: not as the output and
\* not in the metadata.
C3_GetResponseHasNoSecret ==
    \A i \in DOMAIN conn.written :
        (conn.dispatched = <<"get">> /\ conn.written[i].Status = "ok")
          => LET pl == conn.written[i].Payload
             IN  /\ MetadataClientSecret \notin DOMAIN pl.Metadata
                 /\ \A n \in Names : ~mem[n].absent =>
                       /\ pl.Output \notin SecretsOf(mem[n].p) \ ServedTokenOf(mem[n].p)
                       /\ \A k \in DOMAIN pl.Metadata :
                              pl.Metadata[k] \notin {Str(x) : x \in SecretsOf(mem[n].p)}

\* C4: a get is served alike on both sockets: the same request in the same
\* state gets the same response, and leaves the same state, with isReadOnly
\* true as with isReadOnly false.
C4_GetSameOnBothSockets ==
    \A pl \in NamePayloads, e \in GetEnvs :
        handleConn(mem, disk, TRUE, <<RequestLine("get", pl)>>, e, now)
          = handleConn(mem, disk, FALSE, <<RequestLine("get", pl)>>, e, now)

\* a get on the read-only socket was answered with a credential
C4_Witness ==
    /\ conn.readOnly
    /\ conn.dispatched = <<"get">>
    /\ Len(conn.written) = 1
    /\ conn.written[1].Status = "ok"
    /\ conn.written[1].Payload.Output # ""

IsDeviceFlowProvider(p) ==
    p.type = "oauth2-device" \/ (p.type = "oauth2" /\ p.flow = FlowDevice)

NetworkSteps ==
    {"discovery", "device_authorization", "device_poll", "refresh", "client_credentials",
     "exchange", "browser", "listen"}

\* C5: a get for a device-flow provider that holds no token starts no device
\* flow and makes no network call; it is answered with an error whose
\* error_type is auth_required.
C5_DeviceGetAuthRequired ==
    (/\ conn.dispatched = <<"get">>
     /\ conn.name \in Names
     /\ ~mem[conn.name].absent
     /\ IsDeviceFlowProvider(mem[conn.name].p)
     /\ mem[conn.name].p.tokens.nil)
      => /\ Range(conn.steps) \cap NetworkSteps = {}
         /\ Len(conn.written) = 1
         /\ conn.written[1].Status = "error"
         /\ conn.written[1].ErrorType = ErrorTypeAuthRequired

\* C7 as stated: every connection has exactly one request line read, at most
\* one action dispatched and exactly one response line written before it is
\* closed.
C7_ExactlyOneLineOneResponse ==
    conn.closed =>
        /\ conn.read = 1
        /\ Len(conn.dispatched) <= 1
        /\ Len(conn.written) = 1

\* C7 amended: every connection is closed after at most one line read, at
\* most one action dispatched and at most one response line written; a
\* response is written exactly when a line was read and its handler returned
\* (none when the client sent no line or a line beyond the scanner's buffer,
\* none when the handler panicked); a second line is never read or dispatched.
C7_AtMostOneLineOneResponse ==
    conn.closed =>
        /\ conn.read <= 1
        /\ conn.read <= conn.sent
        /\ Len(conn.dispatched) <= conn.read
        /\ Len(conn.written) <= 1
        /\ Len(conn.written) = 1 <=> (conn.read = 1 /\ ~conn.panic)
        /\ conn.sent = 2 => "delete" \notin Range(conn.dispatched)

\* two lines were sent on one connection, one was read and answered
C7_Witness ==
    /\ conn.closed
    /\ conn.sent = 2
    /\ conn.read = 1
    /\ conn.dispatched = <<"get">>
    /\ Len(conn.written) = 1

RunsOf(e) ==
    {[op |-> "Get", err |-> ProviderGet(prov, e, now).err,
      calls |-> ProviderGet(prov, e, now).calls,
      tokens |-> ProviderGet(prov, e, now).prov.tokens],
     [op |-> "Login", err |-> OAuth2Login(prov, e, now).err,
      calls |-> OAuth2Login(prov, e, now).calls,
      tokens |-> OAuth2Login(prov, e, now).prov.tokens]}

IsAuthCodeProvider(p) == p.type = "oauth2" /\ p.flow = FlowAuthCode

IsLocalRedirect(p) ==
    p.redirectURI = "" \/ Hostname(p.redirectURI) \in {"localhost", "127.0.0.1"}

GoodCallback(w) ==
    w.kind = "callback" /\ w.state = GeneratedState /\ w.error = "" /\ w.code # ""

\* a callback with another state, or with an error parameter, fails the flow
\* and no exchange request is sent
RejectsBadCallback(e, r) ==
    ("callback" \in Range(r.calls) /\ (e.wait.state # GeneratedState \/ e.wait.error # ""))
      => (r.err # "" /\ "exchange" \notin Range(r.calls) /\ r.tokens = prov.tokens)

\* C6 as stated: in the authorization-code flow a callback with another state
\* or with an error parameter fails the flow with no exchange request, and an
\* exchange request is sent only after a callback with the generated state,
\* no error and a code.
C6_ExchangeOnlyAfterCallback ==
    IsAuthCodeProvider(prov) =>
        \A e \in ProvEnvs : \A r \in RunsOf(e) :
            /\ RejectsBadCallback(e, r)
            /\ "exchange" \in Range(r.calls)
                 => ("callback" \in Range(r.calls) /\ GoodCallback(e.wait))

\* C6 amended: with a redirect URI on localhost or 127.0.0.1 (the default),
\* a callback with another state or with an error parameter fails the flow
\* with no exchange request, and an exchange request is sent only after a
\* callback with the generated state, no error and a code; with a redirect URI
\* on another host no callback is received, and the exchange request is sent
\* only after the operator has typed a non-empty code.
C6_ExchangeOnlyAfterCallbackOrTypedCode ==
    IsAuthCodeProvider(prov) =>
        \A e \in ProvEnvs : \A r \in RunsOf(e) :
            /\ RejectsBadCallback(e, r)
            /\ "exchange" \in Range(r.calls)
                 => IF IsLocalRedirect(prov)
                    THEN "callback" \in Range(r.calls) /\ GoodCallback(e.wait)
                    ELSE /\ "callback" \notin Range(r.calls)
                         /\ "stdin" \in Range(r.calls)
                         /\ e.stdin \notin {"", "EOF"}

\* an authorization-code flow that received its callback sent the exchange
C6_Witness ==
    /\ IsAuthCodeProvider(prov)
    /\ IsLocalRedirect(prov)
    /\ plast.op \in {"Get", "Login"}
    /\ plast.calls = <<"browser", "listen", "callback", "exchange">>
    /\ plast.err = ""

IsClientCredentialsProvider(p) ==
    p.type = "oauth2-client" \/ (p.type = "oauth2" /\ p.flow = FlowClientCredentials)

\* C9: a client-credentials provider that holds a token which expires more
\* than 30 seconds from now answers Get() with that token, keeps its cache and
\* sends nothing to the token endpoint, whatever the endpoint would answer.
C9_CachedTokenServed ==
    (/\ IsClientCredentialsProvider(prov)
     /\ ~prov.tokens.nil
     /\ prov.tokens.AccessToken # ""
     /\ now + 30 < prov.tokens.ExpiresAt)
      => \A e \in ProvEnvs :
            /\ ProviderGet(prov, e, now).out = prov.tokens.AccessToken
            /\ ProviderGet(prov, e, now).err = ""
            /\ ProviderGet(prov, e, now).calls = <<>>
            /\ ProviderGet(prov, e, now).prov = prov

\* a Get() after the Get() that obtained the token was served from the cache
C9_Witness ==
    /\ IsClientCredentialsProvider(prov)
    /\ plast.op = "Get"
    /\ plast.valid
    /\ plast.calls = <<>>
    /\ plast.out = "T1"
    /\ now > 0

\* C10: a Get() that finds its cached token not valid and holds a refresh
\* token sends the refresh request first; when the refresh succeeds the cache
\* is the refreshed one, its access token is returned and nothing else is
\* sent; when it fails Get() goes on as it does without a refresh token and
\* returns what that returns.
C10_RefreshBeforeFullFlow ==
    (IsTokenCacheProvider(prov) /\ ~HoldsValidToken(prov, now) /\ HoldsRefreshToken(prov))
      => \A e \in ProvEnvs :
            LET r == ProviderGet(prov, e, now)
                f == RefreshAccessToken(prov.tokens.RefreshToken, e.refresh, now)
                plain == ProviderGet([prov EXCEPT !.tokens.RefreshToken = ""], e, now)
            IN  /\ r.calls # <<>>
                /\ r.calls[1] = "refresh"
                /\ IF ~f.err
                   THEN /\ r.calls = <<"refresh">>
                        /\ r.err = ""
                        /\ r.out = f.cache.AccessToken
                        /\ r.prov.tokens = f.cache
                   ELSE /\ r.calls = <<"refresh">> \o plain.calls
                        /\ r.err = plain.err
                        /\ r.out = plain.out

\* token caches around the end of the validity buffer, seen at time t
CacheSamples(t) ==
    {NoTokens} \cup {TokenCache(a, "", "", t + d) : a \in {"", "T1"}, d \in {0, 29, 30, 31, 45}}

\* C11: IsTokenValid is true exactly for a cache that is there, has a
\* non-empty access token and expires strictly later than 30 seconds from now;
\* a cache that expires exactly 30 seconds from now is not valid.
C11_IsTokenValidExact ==
    \A c \in CacheSamples(now) \cup {prov.tokens} :
        /\ IsTokenValid(c, now) <=> (~c.nil /\ c.AccessToken # "" /\ now + 30 < c.ExpiresAt)
        /\ (~c.nil /\ c.ExpiresAt = now + 30) => ~IsTokenValid(c, now)

\* a Get() that found its token expiring exactly 30 seconds later did not
\* serve it from the cache
C11_Witness ==
    /\ ~prov.tokens.nil
    /\ prov.tokens.AccessToken # ""
    /\ prov.tokens.ExpiresAt = now + 30
    /\ plast.op = "Get"
    /\ ~plast.valid
    /\ plast.calls # <<>>

(***************************************************************************)
(* Properties of the device-flow poll loop                                 *)
(***************************************************************************)
PollReturned == poll.pc \in {"returned", "done"}

\* C12: a loop that was answered authorization_pending n times and then a
\* success, with no slow_down, returns the success after exactly n + 1
\* requests and n waits of one interval each, so that at least n times the
\* interval has passed since it was entered.
C12_PendingThenSuccess ==
    (PollReturned /\ poll.err = "" /\ poll.slowdowns = 0)
      => /\ poll.resp # NilResponse
         /\ poll.sent = poll.pendings + 1
         /\ poll.nwaits = poll.pendings
         /\ poll.waited = poll.pendings * poll.interval
         /\ now - poll.start >= poll.pendings * poll.interval

\* two authorization_pending answers, then the success: three requests and
\* two intervals waited
C12_Witness ==
    /\ PollReturned
    /\ poll.err = ""
    /\ poll.pendings = 2
    /\ poll.slowdowns = 0
    /\ poll.sent = 3
    /\ now - poll.start >= 2 * poll.interval

\* the step in which the loop got the answer to a request
PollAnswered == poll.pc = "post" /\ poll'.sent = poll.sent + 1

\* C13: an answer whose error is expired_token, access_denied or anything but
\* authorization_pending and slow_down makes the loop return an error and no
\* token response at once; a loop that has returned sends no further request,
\* and the login that ran it fails and leaves the provider's cache as it was.
C13_TerminalErrorEndsFlow ==
    [][/\ (PollAnswered /\ poll'.last \in {"expired_token", "access_denied", "invalid_client"})
          => (poll'.pc = "returned" /\ poll'.err # "" /\ poll'.resp = NilResponse)
       /\ PollReturned => (poll'.sent = poll.sent /\ poll'.pc # "post")
       /\ (poll.pc = "returned" /\ poll.err # "" /\ poll'.pc = "done")
          => (plast'.op = "Login" /\ plast'.err # "" /\ prov'.tokens = prov.tokens)]_vars

\* a login whose second poll was answered access_denied has failed
C13_Witness ==
    /\ poll.pc = "done"
    /\ poll.last = "access_denied"
    /\ poll.sent = 2
    /\ plast.op = "Login"
    /\ plast.err # ""
    /\ prov.tokens = NoTokens

\* C14: a slow_down answer makes the interval exactly 5 seconds longer and the
\* loop goes on to wait and poll again; the interval never gets shorter while
\* the loop runs, and every wait lasts the interval as the slow_down answers
\* so far have left it.
C14_SlowDownAddsFiveSeconds ==
    [][/\ (PollAnswered /\ poll'.last = "slow_down")
          => (/\ poll'.interval = poll.interval + 5
              /\ poll'.interval > poll.interval
              /\ poll'.pc = "sleep")
       /\ poll.pc # "idle" => poll'.interval >= poll.interval
       /\ (poll.pc = "sleep" /\ poll'.nwaits = poll.nwaits + 1)
          => (/\ now' - now = poll.interval
              /\ poll.interval = poll.interval0 + 5 * poll.slowdowns
              /\ poll'.pc = "top")]_vars

\* after a slow_down, the wait that followed a later authorization_pending
\* lasted the longer interval
C14_Witness ==
    /\ poll.pc = "top"
    /\ poll.slowdowns = 1
    /\ poll.pendings >= 1
    /\ poll.last = "authorization_pending"
    /\ poll.lastWait = poll.interval0 + 5

\* C15: a loop whose requests are all answered returns; no request is sent
\* later than the deadline, the time of entry plus the expires_in of the device
\* authorization; and a loop that was answered authorization_pending or
\* slow_down to the last returns the timeout error, after the deadline, unless
\* its context was cancelled.
C15_PollLoopTerminates ==
    /\ [](poll.pc # "idle" => poll.lastSent <= poll.deadline)
    /\ []((PollReturned /\ poll.last \in {"authorization_pending", "slow_down"})
            => IF poll.cancelled THEN poll.err = "context canceled"
               ELSE poll.err = "device authorization timed out" /\ now > poll.deadline)
    /\ (poll.pc = "top") ~> PollReturned

\* a loop that was only ever answered authorization_pending and slow_down
\* has returned the timeout error
C15_Witness ==
    /\ PollReturned
    /\ poll.err = "device authorization timed out"
    /\ poll.sent = poll.pendings + poll.slowdowns
    /\ poll.pendings >= 1
    /\ poll.slowdowns >= 1
    /\ now > poll.deadline

(***************************************************************************)
(* Properties of the get handler                                           *)
(***************************************************************************)
\* C16: a get is answered within the 60 seconds of its context: a call of
\* Provider.Get is not still running after them, the answer is not later than
\* them, a call the context ended is answered with an error, and Provider.Get
\* is called once.
C16_GetAnsweredWithinTimeout ==
    /\ call.pc = "running" => now <= call.deadline
    /\ call.pc = "answered" => call.answeredAt <= call.deadline
    /\ (call.pc = "answered" /\ call.expired) => call.status = "error"
    /\ call.gets <= 1

\* C17: the response to a get whose Provider.Get failed has error_type
\* auth_required when the failure is ErrAuthenticationRequired and generic (or
\* auth_required) otherwise; an ok response has no error_type.
C17_GetErrorTyped ==
    (conn.dispatched = <<"get">> /\ "Get" \in Range(conn.steps) /\ Len(conn.written) = 1)
      => LET resp == conn.written[1]
         IN  IF resp.Status = "ok" THEN resp.ErrorType = ""
             ELSE IF resp.Error = ErrAuthenticationRequired
             THEN resp.ErrorType = ErrorTypeAuthRequired
             ELSE resp.ErrorType \in {ErrorTypeGeneric, ErrorTypeAuthRequired}

(***************************************************************************)
(* Properties of the OIDC provider                                         *)
(***************************************************************************)
\* the flow run r got an ID token from the token endpoint
ReturnedIDToken(e, r) ==
    \/ "exchange" \in Range(r.calls) /\ e.grant.net = "ok" /\ e.grant.Error = ""
          /\ e.grant.IDToken # ""
    \/ "device_poll" \in Range(r.calls) /\ e.poll.net = "ok" /\ e.poll.Error = ""
          /\ e.poll.IDToken # ""

\* C18: with an issuer configured, a flow (run by Login or by Get) that got an
\* ID token which does not verify fails and leaves the provider's cache as it
\* was.
C18_UnverifiedIDTokenRejected ==
    (prov.type = "oauth2" /\ prov.issuer # "")
      => \A e \in ProvEnvs : \A r \in RunsOf(e) :
            (ReturnedIDToken(e, r) /\ ~e.idok)
              => (r.err # "" /\ r.tokens = prov.tokens)

\* C19: an add of an OAuth2 provider with an issuer, made while the discovery
\* endpoint fails, is answered with an error and stores nothing, in memory or
\* on disk, also when the configuration names every endpoint itself; and no
\* Get() of a provider the daemon holds performs discovery.
C19_DiscoveryFailsAtInit ==
    /\ \A ro \in BOOLEAN, pl \in AddPayloads :
          (/\ pl.shape = "object"
           /\ pl.type = "oauth2"
           /\ GetStringOrDefault(pl.metadata, MetadataIssuer, "") # "")
            => \A s \in {handleConn(mem, disk, ro, <<RequestLine("add", pl)>>,
                                     [Env0 EXCEPT !.doc = DiscoveryFailed], now)} :
                  /\ Len(s.written) = 1
                  /\ s.written[1].Status = "error"
                  /\ s.mem = mem
                  /\ s.disk = disk
    /\ \A n \in Names : ~mem[n].absent =>
          \A e \in GetEnvs :
              Range(ProviderGet(mem[n].p, e, now).calls) \cap {"discovery", "verify"} = {}

\* an add asked the discovery endpoint, which failed, and stored nothing
C19_Witness ==
    /\ conn.dispatched = <<"add">>
    /\ conn.steps = <<"decode", "New", "Init", "discovery">>
    /\ Len(conn.written) = 1
    /\ conn.written[1].Status = "error"
    /\ ~conn.existed
    /\ mem[conn.name].absent
    /\ ~Exists(disk, conn.name)

\* the expires_in values a token endpoint or a set_tokens request may carry
RawExpiresIns == {0 - 1, 0, 45}

ExpectedExpiresAt(expiresIn, t) ==
    IF expiresIn <= 0 THEN t + 365 * 24 * 3600 ELSE t + expiresIn

\* C20: every path that builds a TokenCache from an expires_in value (refresh,
\* code exchange, client credentials, the device flow of Login, SetTokens of
\* every token-caching provider) sets ExpiresAt to now + expires_in when the
\* value is positive and to now + 365 days when it is zero or negative.
C20_ExpiresInNormalized ==
    \A x \in RawExpiresIns :
        /\ \A f \in {RefreshAccessToken("R9", TokenResponse("", "T1", "R1", "", x), now),
                      ExchangeCodeForTokens(TokenResponse("", "T1", "R1", "", x), now),
                      GetClientCredentialsToken(TokenResponse("", "T1", "", "", x), now)} :
              ~f.err /\ f.cache.ExpiresAt = ExpectedExpiresAt(x, now)
        /\ IsDeviceFlowProvider(prov) =>
              \A e \in {[Env0 EXCEPT !.poll = TokenResponse("", "T1", "R1", "", x)]} :
                  \A r \in {IF prov.type = "oauth2" THEN OAuth2Login(prov, e, now)
                                ELSE DeviceProviderLogin(prov, e, now)} :
                      r.err = "" /\ r.prov.tokens.ExpiresAt = ExpectedExpiresAt(x, now)
        /\ IsTokenCacheProvider(prov) =>
              ProviderSetTokens(prov, "T9", "R9", x, now).tokens.ExpiresAt
                  = ExpectedExpiresAt(x, now)

\* C21: a fresh instance of the provider's type, initialised with the provider's
\* Metadata() while the discovery endpoint answers as before, has the same
\* flow, endpoints, client credentials, scopes, redirect settings and use_pkce
\* value as the provider.
C21_MetadataRoundTrip ==
    \A r \in {ProviderInit(New(prov.type).prov, Metadata(prov), Doc)} :
        /\ r.res = "ok"
        /\ [r.prov EXCEPT !.tokens = prov.tokens] = prov

\* Schema(): the fields a variant's schema marks Required
RequiredFields(type) ==
    CASE type = "command" -> {MetadataCommand}
      [] type = "oauth2" -> {MetadataClientID, "flow"}
      [] type = "oauth2-client" ->
           {MetadataClientID, MetadataClientSecret, MetadataTokenEndpoint}
      [] type = "oauth2-device" ->
           {MetadataClientID, MetadataTokenEndpoint, MetadataDeviceEndpoint}
      [] type = "oauth2-proxy" -> {"auth_url"}
      [] OTHER -> {}

Without(config, key) == [k \in DOMAIN config \ {key} |-> config[k]]

\* complete configurations, and the same with one field dropped or left empty
InitConfigs ==
    UNION {{c} \cup {Without(c, k) : k \in DOMAIN c}
               \cup {(k :> Str("")) @@ c : k \in DOMAIN c} :
             c \in {CfgCommand, CfgClientCredentials, CfgDevice, CfgAuthCode, CfgProxy}}

LacksRequired(type, config) ==
    \E k \in RequiredFields(type) :
        k \notin DOMAIN config \/ (config[k].t = "str" /\ config[k].v = "")

\* C22: Init of a fresh instance of the provider's variant returns an error
\* for every configuration that lacks a field the variant's schema requires,
\* or has it empty.
C22_InitRejectsMissingRequired ==
    \A config \in InitConfigs :
        LacksRequired(prov.type, config)
          => ProviderInit(New(prov.type).prov, config, Doc).res = "err"

\* the Register calls made so far for a type, in their order
RegisteredFor(t) == SelectSeq(reg.log, LAMBDA x : x[1] = t)

\* C23: New(t) succeeds exactly when some Register call was made for t; it
\* then calls the factory of the last such Register call once and no other
\* factory, and otherwise fails with the unknown-provider-type error and
\* calls no factory; in both cases the registry stays as it was.
C23_NewUsesLastRegistered ==
    (reg.last.op = "New")
      => /\ (reg.last.err = "") <=> (RegisteredFor(reg.last.type) # <<>>)
         /\ (reg.last.err # "") => /\ reg.last.err = "unknown provider type"
                                   /\ reg.calls = reg.last.calls
         /\ (reg.last.err = "")
              => /\ reg.last.by = RegisteredFor(reg.last.type)[Len(RegisteredFor(reg.last.type))][2]
                 /\ \A f \in Factories :
                       reg.calls[f] = reg.last.calls[f] + (IF f = reg.last.by THEN 1 ELSE 0)
         /\ reg.registry = reg.last.before

\* New was called for a type that had been registered twice, with different
\* factories
C23_Witness ==
    /\ reg.last.op = "New"
    /\ reg.last.err = ""
    /\ Len(RegisteredFor(reg.last.type)) = 2
    /\ RegisteredFor(reg.last.type)[1][2] # RegisteredFor(reg.last.type)[2][2]

\* C24: a starting daemon removes the admin socket only after its
\* connect-probe failed; a probe that succeeds makes it exit with the socket
\* files and every listener as they were; and no step removes or replaces a
\* socket file, admin or read-only, of a process that listens on it.
C24_LiveSocketNeverRemoved ==
    [][/\ \A p \in Procs :
            /\ (boot.pc[p] = "removeAdmin" /\ boot'.pc[p] # "removeAdmin" /\ boot'.pc[p] # "dead")
                  => (boot.probe[p] = "failed" /\ boot'.files["admin"] = "none")
            /\ (boot.files["admin"] # "none" /\ boot'.files["admin"] = "none"
                   /\ boot.pc[p] # boot'.pc[p] /\ boot.pc[p] \in {"stat", "dial", "removeAdmin"})
                  => boot.probe[p] = "failed"
            /\ (boot.pc[p] = "dial" /\ boot'.probe[p] = "ok")
                  => (/\ boot'.pc[p] = "exited"
                      /\ boot'.files = boot.files
                      /\ \A q \in Procs \ {p} : boot'.lis[q] = boot.lis[q]
                      /\ boot'.lis[p] = {})
       /\ \A q \in Procs, f \in Paths :
            (f \in boot.lis[q] /\ f \in boot'.lis[q] /\ boot.files[f] = q)
              => boot'.files[f] = q]_vars

\* a daemon that found a live instance behind the admin socket has exited,
\* and the instance still listens on both of its sockets
C24_Witness ==
    \E p \in Procs \ {"r"} :
        /\ boot.pc[p] = "exited"
        /\ boot.probe[p] = "ok"
        /\ boot.pc["r"] = "running"
        /\ boot.lis["r"] = Paths
        /\ \A f \in Paths : boot.files[f] = "r"

(***************************************************************************)
(* The log lines handleConn writes for one connection.  A byte count is    *)
(* given as the lengths it is the sum of.                                  *)
(***************************************************************************)
\* a request line that is not valid JSON: a string in it holds the escape \bad
InvalidLine(sizes, bad) ==
    [kind |-> "garbage", action |-> "", payload |-> NoPayload, sizes |-> sizes, bad |-> bad]

\* the text of the error json.Unmarshal returns for such a line
UnmarshalError(line) ==
    IF "bad" \in DOMAIN line
    THEN <<"invalid character", line.bad, "in string escape code">>
    ELSE <<"invalid character", "", "looking for beginning of value">>

MapSizes(m) ==
    [k \in DOMAIN m |->
        CASE m[k].t = "str" -> <<"str", Len(m[k].v)>>
          [] m[k].t = "list" -> <<"list", [i \in DOMAIN m[k].l |-> Len(m[k].l[i])]>>
          [] OTHER -> <<"scalar", m[k]>>]

PayloadSizes(pl) ==
    IF "shape" \notin DOMAIN pl THEN <<"none">>
    ELSE <<pl.shape, Len(pl.name), Len(pl.type), MapSizes(pl.metadata), pl.force,
           Len(pl.access_token), Len(pl.refresh_token), pl.expires_in>>

LineSizes(line) ==
    IF "sizes" \in DOMAIN line THEN <<line.kind, line.sizes>>
    ELSE <<line.kind, Len(line.action), PayloadSizes(line.payload)>>

ResponseSizes(resp) ==
    <<resp.Status, Len(resp.Error), Len(resp.ErrorType),
      IF resp.Payload.none THEN <<"none">>
      ELSE <<"payload", Len(resp.Payload.Output), MapSizes(resp.Payload.Metadata)>>>>

\* log.Printf of handleConn, in order; s is what handleConn did with the lines
LogLines(readOnly, lines, s) ==
    LET socketType == IF readOnly THEN "readonly" ELSE "admin"
        answered(req) ==
            IF s.written = <<>> THEN <<>>
            ELSE << <<socketType, "action status", req.action, s.written[1].Status>>,
                    <<socketType, "sending bytes response", ResponseSizes(s.written[1])>>,
                    <<socketType, "response sent successfully">> >>
        parsed(req) ==
            IF req.kind = "garbage"
            THEN << <<socketType, "error parsing request", UnmarshalError(req)>> >>
            ELSE << <<socketType, "processing action", req.action>> >> \o answered(req)
        scanned(req) ==
            IF req.kind = "toolong"
            THEN << <<socketType, "error reading from connection",
                      "bufio.Scanner: token too long">> >>
            ELSE << <<socketType, "received bytes", LineSizes(req)>> >> \o parsed(req)
    IN  << <<socketType, "new connection">> >>
          \o (IF lines = <<>>
              THEN << <<socketType, "connection closed by client (no data)">> >>
              ELSE scanned(lines[1]))

LogRun(lines, e) == [lines |-> lines, env |-> e]

\* pairs of runs that differ only in secret values of equal length: the
\* tokens of a set_tokens request, the command of an add request, the output
\* of the command and the tokens granted during a get, and the contents of a
\* string in a request that is not valid JSON
LogTwins ==
    {<<LogRun(<<RequestLine("set_tokens", Payload("object", "a", "", EmptyMap, FALSE, "T9", "R9", 45))>>, Env0),
       LogRun(<<RequestLine("set_tokens", Payload("object", "a", "", EmptyMap, FALSE, "T8", "R8", 45))>>, Env0)>>,
     <<LogRun(<<RequestLine("add", Payload("object", "a", "command", CfgCommand, TRUE, "", "", 0))>>, Env0),
       LogRun(<<RequestLine("add", Payload("object", "a", "command",
                                            (MetadataCommand :> Str("echo ho")), TRUE, "", "", 0))>>, Env0)>>,
     <<LogRun(<<RequestLine("get", Payload("object", "a", "", EmptyMap, FALSE, "", "", 0))>>, Env0),
       LogRun(<<RequestLine("get", Payload("object", "a", "", EmptyMap, FALSE, "", "", 0))>>,
              [Env0 EXCEPT !.cmd = [exit |-> 0, stdout |-> "ho\n"],
                           !.grant = TokenResponse("", "T3", "", "", 45),
                           !.refresh = TokenResponse("", "T4", "R3", "I3", 0)])>>,
     <<LogRun(<<InvalidLine(<<6, 3>>, "q")>>, Env0), LogRun(<<InvalidLine(<<6, 3>>, "z")>>, Env0)>>}

DaemonLog(readOnly, run) ==
    LogLines(readOnly, run.lines, handleConn(mem, disk, readOnly, run.lines, run.env, now))

\* C25: two connections that differ only in secret values of equal length
\* leave the same log lines, whatever the daemon holds.
C25_LogIndependentOfSecrets ==
    \A readOnly \in BOOLEAN, tw \in LogTwins :
        DaemonLog(readOnly, tw[1]) = DaemonLog(readOnly, tw[2])

(***************************************************************************)
(* PKCE and state values, as terms: random bytes, a digest and an encoding *)
(* are kept as what they were made of.                                     *)
(***************************************************************************)
Seeds == {"k1", "k2"}

RandomBytes(n, seed) == [bytes |-> n, random |-> seed]
SHA256(text) == [bytes |-> 32, sha256 |-> text]
Base64RawURL(b) == [encoding |-> "base64url", padding |-> FALSE, of |-> b]
NoParam == [absent |-> TRUE]

GenerateCodeVerifier(seed) == Base64RawURL(RandomBytes(32, seed))

\* the challenge of the plain method: the verifier itself
GenerateCodeChallengePlain(verifier) == verifier

GenerateCodeChallenge(verifier) == Base64RawURL(SHA256(verifier))

generateState(seed) == Base64RawURL(RandomBytes(16, seed))

\* AuthenticateAuthCodeFlow up to the authorization URL: the verifier it will
\* return and the parameters it puts in the URL
AuthCodeURL(usePKCE, stateSeed, verifierSeed) ==
    [codeVerifier |-> IF usePKCE THEN GenerateCodeVerifier(verifierSeed) ELSE NoParam,
     state |-> generateState(stateSeed),
     code_challenge |-> IF usePKCE
                        THEN GenerateCodeChallenge(GenerateCodeVerifier(verifierSeed))
                        ELSE NoParam,
     code_challenge_method |-> IF usePKCE THEN "S256" ELSE ""]

\* C26: in every authorization URL the state is the URL-safe base64 of at
\* least 16 random bytes, and with PKCE on the verifier is the URL-safe
\* base64 of at least 32 random bytes and the challenge is the URL-safe
\* base64 of the SHA-256 digest of that verifier, with method S256.
C26_PKCEPairDerived ==
    (prov.type = "oauth2" /\ prov.flow = FlowAuthCode)
      => \A ss, vs \in Seeds :
            \A a \in {AuthCodeURL(prov.usePKCE, ss, vs)} :
                /\ a.state.encoding = "base64url"
                /\ a.state.of.bytes >= 16
                /\ a.state.of.random = ss
                /\ prov.usePKCE
                     => /\ a.codeVerifier.encoding = "base64url"
                        /\ a.codeVerifier.of.bytes >= 32
                        /\ a.codeVerifier.of.random = vs
                        /\ a.code_challenge = Base64RawURL(SHA256(a.codeVerifier))
                        /\ a.code_challenge_method = "S256"

\* a provider with PKCE on has run the authorization-code flow to its end
C26_Witness ==
    /\ prov.type = "oauth2"
    /\ prov.flow = FlowAuthCode
    /\ prov.usePKCE
    /\ plast.op = "Get"
    /\ plast.err = ""
    /\ plast.calls = <<"browser", "listen", "callback", "exchange">>

\* C27: a get for a command provider that comes right after a successful get
\* for the same provider, the daemon running all along, is answered as the
\* first one was and executes no command.
C27_CommandResultCached ==
    [][(/\ Served1
        /\ conn.dispatched = <<"get">>
        /\ Len(conn.written) = 1
        /\ conn.written[1].Status = "ok"
        /\ "exec" \in Range(conn.steps)
        /\ conn'.dispatched = <<"get">>
        /\ conn'.name = conn.name)
         => (/\ "exec" \notin Range(conn'.steps)
             /\ conn'.written = conn.written)]_vars

(***************************************************************************)
(* State under its lock, one step of a State method at a time: two handler *)
(* goroutines call Get, Add and Delete on one State; the process may be    *)
(* killed at any step and started again.                                   *)
(***************************************************************************)
MaxStateCalls == 3

StateKinds == {<<"command", CfgCommand>>, <<"oauth2", CfgOIDC>>}

\* the Add handler's provider: New, then Init with the payload's metadata
Made(kind) == ProviderInit(New(kind[1]).prov, kind[2], Doc).prov

\* what os.WriteFile leaves when it stops after truncating the file
TruncatedFile == StoredProvider("", EmptyMap)

Durable(files, name) == Exists(files, name) /\ files[name] # TruncatedFile

\* provider.Save with the outcomes of os.WriteFile: written, not written at
\* all, or cut short
SaveFile(d, name, p, out) ==
    IF out = "truncated"
    THEN [err |-> TRUE, disk |-> [d EXCEPT ![name] = TruncatedFile]]
    ELSE Save(d, name, p, out = "ok")

\* State.LoadAll over the files of this daemon
LoadAllFiles(files, doc) ==
    [n \in LockNames |-> IF Load(files, n, doc).res = "ok"
                         THEN Live(Load(files, n, doc).prov) ELSE NoProvider]

InitialFiles ==
    {[n \in LockNames |-> IF n = "a" /\ k[1] # "" THEN StoredProvider(k[1], Metadata(Made(k)))
                          ELSE NoFile] : k \in StateKinds \cup {<<"", EmptyMap>>}}

InitState ==
    /\ Quiescent
    /\ reg = RegistryAfterInit
    /\ boot = NoBoot
    /\ \E f \in InitialFiles, doc \in {Doc, DiscoveryFailed} :
           thr = ThreadState(LoadAllFiles(f, doc), f, TRUE)
    /\ race = NoRace
    /\ srv = NoServer

StateUnchanged == UNCHANGED <<daemonVars, provVars, pollVars, now, reg, boot, race, srv>>

\* the deferred Unlock or RUnlock: the method returns
Unlock(s, t, pc, res) ==
    [s EXCEPT !.pc[t] = pc, !.res[t] = res,
              !.readers = @ \ {t},
              !.writer = IF @ = t THEN "none" ELSE @]

\* a handler calls state.Get, state.Add or state.Delete
Call(t) ==
    \E op \in {"get", "add", "delete"}, n \in LockNames, k \in StateKinds :
        /\ thr.alive
        /\ thr.pc[t] = "idle"
        /\ thr.calls < MaxStateCalls
        /\ op # "add" => k = <<"command", CfgCommand>>
        /\ thr' = [thr EXCEPT !.pc[t] = "lock", !.op[t] = op, !.name[t] = n,
                              !.kind[t] = k, !.res[t] = "",
                              !.fresh[t] = ~Exists(thr.files, n),
                              !.over = [w \in Threads |->
                                          IF w # t THEN thr.over[w] \ {t}
                                          ELSE {u \in Threads \ {t} :
                                                  /\ thr.pc[u] # "idle"
                                                  /\ thr.op[u] = "add"
                                                  /\ thr.name[u] = n}],
                              !.calls = @ + 1]
        /\ StateUnchanged

\* s.mu.RLock() of State.Get
RLock(t) ==
    /\ thr.pc[t] = "lock"
    /\ thr.op[t] = "get"
    /\ thr.writer = "none"
    /\ thr' = [thr EXCEPT !.pc[t] = "lookup", !.readers = @ \cup {t}]
    /\ StateUnchanged

\* a write lock that does not exclude anyone
CanLockWhileHeld(s) == TRUE

\* sync.RWMutex: Lock is granted when no one holds the lock
CanLock(s) == s.writer = "none" /\ s.readers = {}

\* s.mu.Lock() of State.Add and State.Delete
Lock(t) ==
    /\ thr.pc[t] = "lock"
    /\ thr.op[t] \in {"add", "delete"}
    /\ CanLock(thr)
    /\ thr' = [thr EXCEPT !.pc[t] = IF thr.op[t] = "add" THEN "exists" ELSE "diskDelete",
                          !.writer = t]
    /\ StateUnchanged

\* State.Get looks the name up: a hit returns; a miss goes to provider.Load,
\* whose Init may have to ask the network before it returns
Lookup(t) ==
    \E l \in {Load(thr.files, thr.name[t], Doc)} :
        /\ thr.pc[t] = "lookup"
        /\ thr' = IF ~thr.providers[thr.name[t]].absent
                  THEN Unlock(thr, t, "providerGet", "ok")
                  ELSE IF l.net # <<>>
                  THEN [thr EXCEPT !.pc[t] = "loading"]
                  ELSE IF l.res = "ok"
                  THEN Unlock(thr, t, "providerGet", "ok")
                  ELSE Unlock(thr, t, "idle", "not found")
        /\ StateUnchanged

\* the network has answered the Init of provider.Load; State.Get returns
Loaded(t) ==
    \E doc \in {Doc, DiscoveryFailed} :
        \E l \in {Load(thr.files, thr.name[t], doc)} :
            /\ thr.pc[t] = "loading"
            /\ thr' = IF l.res = "ok"
                      THEN Unlock(thr, t, "providerGet", "ok")
                      ELSE Unlock(thr, t, "idle", "load failed")
            /\ StateUnchanged

\* the Get handler's prov.Get has returned
ProviderGetDone(t) ==
    /\ thr.pc[t] = "providerGet"
    /\ thr' = [thr EXCEPT !.pc[t] = "idle"]
    /\ StateUnchanged

\* State.Add: provider.Exists
AddExists(t) ==
    /\ thr.pc[t] = "exists"
    /\ thr' = IF Exists(thr.files, thr.name[t])
              THEN Unlock(thr, t, "idle", "already exists")
              ELSE [thr EXCEPT !.pc[t] = "save"]
    /\ StateUnchanged

\* State.Add after provider.Save: the error returned, or on to the map
AfterSaveIgnoringError(s, t, r) == [s EXCEPT !.files = r.disk, !.pc[t] = "insert"]

AfterSave(s, t, r) ==
    IF r.err THEN Unlock([s EXCEPT !.files = r.disk], t, "idle", "save failed")
    ELSE [s EXCEPT !.files = r.disk, !.pc[t] = "insert"]

\* State.Add: provider.Save
AddSave(t) ==
    \E out \in {"ok", "failed", "truncated"} :
        /\ thr.pc[t] = "save"
        /\ thr' = AfterSave(thr, t, SaveFile(thr.files, thr.name[t], Made(thr.kind[t]), out))
        /\ StateUnchanged

\* State.Add: s.providers[name] = prov
AddInsert(t) ==
    /\ thr.pc[t] = "insert"
    /\ thr' = Unlock([thr EXCEPT !.providers[thr.name[t]] = Live(Made(thr.kind[t])),
                                 !.added = @ \cup {thr.name[t]}],
                     t, "idle", "ok")
    /\ StateUnchanged

\* State.Delete: provider.Delete
DeleteDisk(t) ==
    \E r \in {DiskDelete(thr.files, thr.name[t])} :
        /\ thr.pc[t] = "diskDelete"
        /\ thr' = IF r.err THEN Unlock(thr, t, "idle", "not found")
                  ELSE [thr EXCEPT !.files = r.disk, !.pc[t] = "mapDelete"]
        /\ StateUnchanged

\* State.Delete: delete(s.providers, name)
DeleteMap(t) ==
    /\ thr.pc[t] = "mapDelete"
    /\ thr' = Unlock([thr EXCEPT !.providers[thr.name[t]] = NoProvider,
                                 !.added = @ \ {thr.name[t]}],
                     t, "idle", "ok")
    /\ StateUnchanged

\* the process is killed: the map and the goroutines are gone, and a write
\* that was under way may have left its file cut short
Crash ==
    \E cut \in BOOLEAN :
        /\ thr.alive
        /\ thr.calls < MaxStateCalls
        /\ thr' = [ThreadState([n \in LockNames |-> NoProvider],
                               [n \in LockNames |->
                                  IF cut /\ \E t \in Threads : thr.pc[t] = "save" /\ thr.name[t] = n
                                  THEN TruncatedFile ELSE thr.files[n]],
                               FALSE)
                     EXCEPT !.calls = thr.calls + 1]
        /\ StateUnchanged

\* the daemon is started again: NewState and its LoadAll
Restart ==
    \E doc \in {Doc, DiscoveryFailed} :
        /\ ~thr.alive
        /\ thr # NoThreads
        /\ thr' = [thr EXCEPT !.alive = TRUE, !.providers = LoadAllFiles(thr.files, doc)]
        /\ StateUnchanged

NextState ==
    \/ \E t \in Threads : Call(t)
    \/ \E t \in Threads : RLock(t)
    \/ \E t \in Threads : Lock(t)
    \/ \E t \in Threads : Lookup(t)
    \/ \E t \in Threads : Loaded(t)
    \/ \E t \in Threads : ProviderGetDone(t)
    \/ \E t \in Threads : AddExists(t)
    \/ \E t \in Threads : AddSave(t)
    \/ \E t \in Threads : AddInsert(t)
    \/ \E t \in Threads : DeleteDisk(t)
    \/ \E t \in Threads : DeleteMap(t)
    \/ Crash
    \/ Restart

SpecState == InitState /\ [][NextState]_vars

\* C28: a goroutine that waits for the network inside the lookup of a get, or
\* that is inside the provider's Get, holds State.mu neither for reading nor
\* for writing.
C28_NoLockWhileProviderBlocks ==
    \A t \in Threads :
        thr.pc[t] \in {"loading", "providerGet"}
            => t \notin thr.readers /\ thr.writer # t

\* a Delete has removed the file of the name and not yet its map entry
DeleteUnderWay(s, n) == \E t \in Threads : s.pc[t] = "mapDelete" /\ s.name[t] = n

\* C29: State.Add saves before it inserts and inserts only after a Save that
\* succeeded. After every step, a kill and a failed or cut-short write
\* included, every name that is in the map (all those Add inserted among
\* them) has a complete file, but for the name a Delete is removing, whose
\* file goes first as well; the insert step finds the complete file of its
\* name; and an Add that returns an error leaves the map as it was.
C29_AddSavesBeforeInsert ==
    [][/\ \A n \in LockNames :
              (n \in thr'.added \/ ~thr'.providers[n].absent)
                  => (/\ ~thr'.providers[n].absent
                      /\ Durable(thr'.files, n) \/ DeleteUnderWay(thr', n))
       /\ \A t \in Threads :
              /\ thr.pc[t] = "insert" => Durable(thr.files, thr.name[t])
              /\ (thr.pc[t] \in {"exists", "save"} /\ thr'.pc[t] = "idle" /\ thr'.alive)
                     => (/\ thr'.res[t] \in {"already exists", "save failed"}
                         /\ thr'.providers = thr.providers)]_vars

\* an Add has put a name in the map, its file is complete, and another Add
\* has just returned the error of a Save that failed
C29_Witness ==
    \E t \in Threads, n \in thr.added :
        /\ thr.res[t] = "save failed"
        /\ ~thr.providers[n].absent
        /\ Durable(thr.files, n)
        /\ thr.name[t] # n

\* C30: whatever the daemon holds, an add request whose payload names a
\* provider and a registered type is answered with exactly one response line,
\* and the handler does not end in a panic, whatever the metadata map is.
C30_AddAlwaysAnswered ==
    \A ro \in BOOLEAN, e \in AddEnvs :
        \A pl \in {q \in AddPayloads : q.shape = "object" /\ q.name # ""
                                         /\ q.type \in RegisteredTypes} :
            \A s \in {handleConn(mem, disk, ro, <<RequestLine("add", pl)>>, e, now)} :
                /\ Len(s.written) = 1
                /\ s.written[1].Status \in {"ok", "error"}
                /\ ~s.panic

\* the get of the next connection for the name of a payload
GetPayloadFor(pl) == Payload("object", pl.name, "", EmptyMap, FALSE, "", "", 0)

\* C31: whatever the daemon holds, when a set_tokens with an expires_in above
\* 30 seconds is answered ok, a get for the same name that follows it before
\* the expiry is answered ok with the access token that was set, and the
\* provider's Get sends nothing and starts no flow.
C31_SetTokensThenGet ==
    \A pl \in {q \in SetTokensPayloads : q.shape = "object" /\ q.expires_in > 30} :
        \A e \in SetTokensEnvs, ro \in BOOLEAN :
            \A s \in {SetTokens(mem, disk, pl, ro, e, now)} :
                s.resp.Status = "ok"
                    => \A e2 \in GetEnvs, ro2 \in BOOLEAN :
                          \A g \in {Get(s.mem, s.disk, GetPayloadFor(pl), ro2, e2, now)} :
                              /\ g.resp.Status = "ok"
                              /\ g.resp.Payload.Output = pl.access_token
                              /\ g.steps[Len(g.steps)] = "Get"

(***************************************************************************)
(* Provider.Get of the universal provider, one statement at a time: the    *)
(* handler goroutines of several get requests for one name hold the same   *)
(* instance, the one in the map, and call its Get with no State lock held. *)
(***************************************************************************)
MaxGets == 3

\* the access tokens the token endpoint issues, one per request it grants
IssuedTokens == <<"T1", "T2", "T3", "T4", "T5", "T6", "T7", "T8">>
Issued(k) == TokenResponse("", IssuedTokens[k], "", "", 45)

RaceCaches ==
    {NoTokens, TokenCache("T0", "R0", "", 0), TokenCache("T0", "", "", 0),
     TokenCache("T0", "", "", 45)}

InitRace ==
    /\ Quiescent
    /\ reg = RegistryAfterInit
    /\ boot = NoBoot
    /\ thr = NoThreads
    /\ \E c \in RaceCaches :
           race = RaceState([OAuth2Init(ZeroProvider("oauth2"), CfgClientCredentials, Doc).prov
                               EXCEPT !.tokens = c])
    /\ srv = NoServer

RaceUnchanged == UNCHANGED <<daemonVars, provVars, pollVars, now, reg, boot, thr, srv>>

\* the Get handler has the instance from State.Get and calls prov.Get
RaceBegin(t) ==
    /\ race.pc[t] \in {"idle", "done"}
    /\ race.gets < MaxGets
    /\ race' = [race EXCEPT !.pc[t] = "check", !.got[t] = NoCache, !.out[t] = "",
                            !.err[t] = "", !.gets = @ + 1]
    /\ RaceUnchanged

\* the test of the cached token, and of the refresh token when it is not valid
RaceCheck(t) ==
    /\ race.pc[t] = "check"
    /\ race' = IF IsTokenValid(race.p.tokens, now)
               THEN [race EXCEPT !.pc[t] = "done", !.out[t] = race.p.tokens.AccessToken]
               ELSE IF ~race.p.tokens.nil /\ race.p.tokens.RefreshToken # ""
               THEN [race EXCEPT !.pc[t] = "refresh"]
               ELSE [race EXCEPT !.pc[t] = "grant"]
    /\ RaceUnchanged

\* what follows a token request: the answer kept for the assignment, or the
\* next statement when the request failed
Requested(s, t, kind, res, failPc, failErr) ==
    IF res.err
    THEN [s EXCEPT !.pc[t] = failPc, !.err[t] = failErr,
                   !.sent = Append(@, [kind |-> kind, ok |-> FALSE])]
    ELSE [s EXCEPT !.pc[t] = "store", !.got[t] = res,
                   !.sent = Append(@, [kind |-> kind, ok |-> TRUE])]

\* common.RefreshAccessToken with the refresh token the instance holds now
RaceRefresh(t) ==
    \E r \in {Issued(Len(race.sent) + 1), NetFail} :
        /\ race.pc[t] = "refresh"
        /\ Len(race.sent) < Len(IssuedTokens)
        /\ race' = Requested(race, t, "refresh",
                             RefreshAccessToken(race.p.tokens.RefreshToken, r, now),
                             "grant", "")
        /\ RaceUnchanged

\* common.GetClientCredentialsToken
RaceGrant(t) ==
    \E r \in {Issued(Len(race.sent) + 1), NetFail} :
        /\ race.pc[t] = "grant"
        /\ Len(race.sent) < Len(IssuedTokens)
        /\ race' = Requested(race, t, "client_credentials",
                             GetClientCredentialsToken(r, now),
                             "done", "client credentials grant failed")
        /\ RaceUnchanged

\* p.tokens = the new cache, and the return of its access token
RaceStore(t) ==
    /\ race.pc[t] = "store"
    /\ race' = [race EXCEPT !.pc[t] = "done", !.p.tokens = race.got[t].cache,
                            !.out[t] = race.got[t].cache.AccessToken]
    /\ RaceUnchanged

NextRace ==
    \/ \E t \in Threads : RaceBegin(t)
    \/ \E t \in Threads : RaceCheck(t)
    \/ \E t \in Threads : RaceRefresh(t)
    \/ \E t \in Threads : RaceGrant(t)
    \/ \E t \in Threads : RaceStore(t)

SpecRace == InitRace /\ [][NextRace]_vars

Acquired == {i \in DOMAIN race.sent : race.sent[i].ok}

\* C32: the get requests handled concurrently for one provider obtain at
\* most one token from the token endpoint while the token obtained stays
\* valid; no two goroutines are between the test of the cache and the
\* assignment of a new one at once; and once every Get has returned, each
\* token returned is the one in the cache.
C32_OneAcquisition ==
    /\ Cardinality(Acquired) <= 1
    /\ \A t, u \in Threads :
           (race.pc[t] \in {"refresh", "grant", "store"}
              /\ race.pc[u] \in {"refresh", "grant", "store"}) => t = u
    /\ (\A t \in Threads : race.pc[t] \in {"idle", "done"})
           => \A t \in Threads :
                  (race.pc[t] = "done" /\ race.err[t] = "")
                      => race.out[t] = race.p.tokens.AccessToken

\* the token responses and SetTokens calls a provider operation may see
SeenResponses ==
    {r \in UNION {{e.refresh, e.grant, e.poll} : e \in ProvEnvs} :
        r.net = "ok" /\ r.Error = ""}
      \cup {TokenResponse("", "T9", r, "", x) : r \in {"", "R9"}, x \in ExpiresIns}

\* the cache holds the values of the response r, received at t by a provider
\* that held the cache old; the client-credentials grant keeps no refresh
\* token, and a refresh keeps the one it was made with when the response
\* brings none
FromOneResponse(cache, r, old, t) ==
    /\ ~cache.nil
    /\ cache.AccessToken = r.AccessToken
    /\ cache.ExpiresAt = t + NormalizeExpiresIn(r.ExpiresIn)
    /\ cache.IDToken \in {"", r.IDToken}
    /\ \/ cache.RefreshToken = r.RefreshToken
       \/ cache.RefreshToken = ""
       \/ r.RefreshToken = "" /\ ~old.nil /\ cache.RefreshToken = old.RefreshToken

MaxLogins == 3

CallbackPorts == {DefaultRedirectPort}

\* how the wait for the callback may end
WaitKinds == {"callback", "servererror", "cancelled", "timeout"}

\* a branch of the select that returns with the listener left open
ClosesListenerOnSuccessOnly(kind) == kind = "callback"

\* every branch of the select closes the server: Close in the three error
\* branches, Shutdown after a callback
ClosesListener(kind) == kind \in WaitKinds

InitListen ==
    /\ Quiescent
    /\ reg = RegistryAfterInit
    /\ boot = NoBoot
    /\ thr = NoThreads
    /\ race = NoRace
    /\ srv = NoServer

ListenUnchanged == UNCHANGED <<daemonVars, provVars, pollVars, now, reg, boot, thr, race>>

\* a flow begins; OpenBrowser may fail before anything is bound
FlowBegin ==
    \E port \in CallbackPorts, browser \in BOOLEAN :
        /\ srv.pc = "idle"
        /\ Len(srv.log) < MaxLogins
        /\ srv' = IF browser THEN [srv EXCEPT !.pc = "listen", !.port = port, !.end = ""]
                  ELSE [srv EXCEPT !.log = Append(@, "failed to open browser")]
        /\ ListenUnchanged

\* net.Listen on the callback port
FlowListen ==
    /\ srv.pc = "listen"
    /\ srv' = IF srv.port \in srv.bound
              THEN [srv EXCEPT !.pc = "idle",
                               !.log = Append(@, "failed to start callback server")]
              ELSE [srv EXCEPT !.pc = "wait", !.bound = @ \cup {srv.port}]
    /\ ListenUnchanged

\* the select returns in one of its branches
FlowWaitEnds ==
    \E kind \in WaitKinds :
        /\ srv.pc = "wait"
        /\ srv' = [srv EXCEPT !.pc = "close", !.end = kind]
        /\ ListenUnchanged

\* server.Close() or server.Shutdown() of the branch taken
FlowClose ==
    /\ srv.pc = "close"
    /\ srv' = [srv EXCEPT !.pc = "return",
                          !.bound = IF ClosesListener(srv.end) THEN @ \ {srv.port} ELSE @]
    /\ ListenUnchanged

\* the flow returns to its caller
FlowReturn ==
    /\ srv.pc = "return"
    /\ srv' = [srv EXCEPT !.pc = "idle", !.log = Append(@, srv.end)]
    /\ ListenUnchanged

NextListen ==
    \/ FlowBegin
    \/ FlowListen
    \/ FlowWaitEnds
    \/ FlowClose
    \/ FlowReturn

SpecListen == InitListen /\ [][NextListen]_vars

\* C34: when the flow has returned, however its wait ended, no listener is
\* bound to the callback port, and no flow has ever failed to bind it.
C34_ListenerClosedOnReturn ==
    /\ srv.pc \in {"idle", "return"} => srv.bound = {}
    /\ \A i \in DOMAIN srv.log : srv.log[i] # "failed to start callback server"

\* a login has bound the port after a cancelled login and a timed-out one
C34_Witness ==
    /\ Len(srv.log) = 2
    /\ {srv.log[1], srv.log[2]} = {"cancelled", "timeout"}
    /\ srv.pc = "wait"
    /\ srv.port \in srv.bound

\* two goroutines have each finished an Add of the same name, the call of t
\* made while that of u was under way; the name had no file when either call
\* was made, and no write failed
BothAdded(t, u) ==
    /\ u \in thr.over[t]
    /\ thr.alive
    /\ thr.op[t] = "add" /\ thr.op[u] = "add"
    /\ thr.name[t] = thr.name[u]
    /\ thr.fresh[t] /\ thr.fresh[u]
    /\ thr.pc[t] = "idle" /\ thr.pc[u] = "idle"
    /\ thr.res[t] \notin {"", "save failed"} /\ thr.res[u] \notin {"", "save failed"}

\* C35: of two Add calls for the same new name that run at the same time,
\* one returns nil and the other the already-exists error, and the file and
\* the map hold the provider of the call that returned nil.
C35_ConcurrentAddOneWins ==
    \A t, u \in Threads :
        BothAdded(t, u)
            => /\ {thr.res[t], thr.res[u]} = {"ok", "already exists"}
               /\ \A w \in {t, u} :
                      thr.res[w] = "ok"
                        => /\ thr.providers[thr.name[w]] = Live(Made(thr.kind[w]))
                           /\ thr.files[thr.name[w]]
                                = StoredProvider(thr.kind[w][1], Metadata(Made(thr.kind[w])))

\* the two calls carried different providers and the second one to get the
\* lock was refused
C35_Witness ==
    \E t, u \in Threads :
        /\ BothAdded(t, u)
        /\ thr.kind[t] # thr.kind[u]
        /\ thr.res[u] = "ok"
        /\ thr.res[t] = "already exists"

\* the daemon's instance of the provider after the client has sent it what
\* GetTokens reports at time t
Synchronised(p, t) ==
    ProviderSetTokens([p EXCEPT !.tokens = NoTokens],
                      ProviderGetTokens(p, t).accessToken,
                      ProviderGetTokens(p, t).refreshToken,
                      ProviderGetTokens(p, t).expiresIn, t)

\* C36: whenever a provider holds an access token, the cache that SetTokens
\* builds from the values GetTokens reports has no more lifetime left than
\* the cache the values were read from: its expiry is not later, or it has
\* expired as well.
C36_SyncNeverExtends ==
    (IsTokenCacheProvider(prov) /\ ~prov.tokens.nil /\ prov.tokens.AccessToken # "")
        => ProviderGetTokens(Synchronised(prov, now), now).expiresIn
             <= ProviderGetTokens(prov, now).expiresIn

\* C37: a Login() that returns an error leaves the provider as it was, its
\* token cache included, so that a token that was valid before it is still
\* what the next Get() returns.
C37_FailedLoginKeepsCache ==
    [][(plast'.op = "Login" /\ plast'.err # "" /\ IsLoginProvider(prov))
         => (/\ prov'.tokens = prov.tokens
             /\ IsTokenValid(prov.tokens, now)
                  => \A e \in ProvEnvs :
                         /\ ProviderGet(prov', e, now).err = ""
                         /\ ProviderGet(prov', e, now).calls = <<>>
                         /\ ProviderGet(prov', e, now).out = ProviderGet(prov, e, now).out)]_vars

\* C38: when a Get() or Login() of the universal, client or device provider
\* has gone to the token endpoint and returned without error, the cache the
\* provider holds has an access token that is not empty.
C38_InstalledCacheHasAccessToken ==
    (/\ prov.type \in {"oauth2", "oauth2-client", "oauth2-device"}
     /\ plast.op \in {"Get", "Login"}
     /\ plast.err = ""
     /\ plast.calls # <<>>)
        => ~prov.tokens.nil /\ prov.tokens.AccessToken # ""

\* C39: a poll loop that reports "device authorization timed out" has sent at
\* least one request to the token endpoint before.
C39_PollsBeforeTimeout ==
    (poll.pc \in {"returned", "done"} /\ poll.err = "device authorization timed out")
        => poll.sent >= 1

\* C40: after a Get() of the oauth2-proxy provider that went through the
\* browser and the callback and returned a token, a further Get() before the
\* cached token's validity ends returns the same token without opening the
\* browser or starting the callback server, whatever the outside world is.
C40_ProxyGetServedFromCache ==
    (/\ prov.type = "oauth2-proxy"
     /\ plast.op = "Get"
     /\ plast.err = ""
     /\ plast.calls # <<>>)
        => \A e \in ProvEnvs :
              \A t \in {now, prov.tokens.ExpiresAt - ValidityBuffer - 1} :
                  /\ ProviderGet(prov, e, t).calls = <<>>
                  /\ ProviderGet(prov, e, t).err = ""
                  /\ ProviderGet(prov, e, t).out = plast.out

====
